---- MODULE Spec2Model ----
(***************************************************************************)
(* Model of the METAR-TAF repository's decoders:                           *)
(*   src/collect_notam.py  NOTAMCollector._parse_raw_notam and             *)
(*                         NOTAMCollector._parse_notam_datetime            *)
(*   src/notam_decoder.py  NOTAMDecoder._classify_severity / decode        *)
(*   src/taf_decoder.py    TAFDecoder.decode and its field parsers         *)
(*                                                                         *)
(* Texts are TLA+ strings; every regular expression of the source is       *)
(* written out as a matcher over character positions (1-based), and        *)
(* re.search is the leftmost position at which the matcher succeeds.       *)
(* Python's None is the empty tuple <<>> and a present value x is <<x>>,   *)
(* so that "absent" and "empty string" stay distinct.                      *)
(***************************************************************************)
EXTENDS Integers, Sequences, FiniteSets, TLC

VARIABLES pc, op, arg, ret, raw_taf, decoded, taf,
          heap, self_decoded, calls, decoded_list,
          fetch_pc, source_index, notam_results, queried,
          collect_pc, countries, country_index, airport_index, taf_results,
          country_stats

\* one TAFDecoder used for several calls: the dicts that decode has made
\* (heap), the one self.decoded refers to, the calls under way and the list
\* decode_taf_file builds
instance == <<heap, self_decoded, calls, decoded_list>>

\* a call of NOTAMCollector.fetch_all_notams: the statement it is at, the
\* place in sources, the dict results, and the calls of the parse functions
\* made so far with what each gave
fetcher == <<fetch_pc, source_index, notam_results, queried>>

\* a call of collect_all_taf: the statement it is at, its countries, the
\* places in the two loops, the dict results and the dict country_stats
gatherer == <<collect_pc, countries, country_index, airport_index, taf_results,
              country_stats>>

collectors == <<fetcher, gatherer>>

vars == <<pc, op, arg, ret, raw_taf, decoded, taf, instance, collectors>>

None == <<>>
Some(x) == <<x>>
Val(o) == o[1]

(***************************************************************************)
(* Characters and strings                                                  *)
(***************************************************************************)
Digits == {"0", "1", "2", "3", "4", "5", "6", "7", "8", "9"}

Uppers == {"A", "B", "C", "D", "E", "F", "G", "H", "I", "J", "K", "L", "M",
           "N", "O", "P", "Q", "R", "S", "T", "U", "V", "W", "X", "Y", "Z"}

\* the characters \s matches, within the alphabet of the inputs
Spaces == {" ", "\n", "\t"}

NL == "\n"

Ch(s, i) == IF i >= 1 /\ i <= Len(s) THEN SubSeq(s, i, i) ELSE ""

LitAt(s, i, lit) ==
    /\ i >= 1
    /\ i + Len(lit) - 1 <= Len(s)
    /\ SubSeq(s, i, i + Len(lit) - 1) = lit

ClassAt(s, i, n, class) == \A k \in i..(i + n - 1) : Ch(s, k) \in class

DigitsAt(s, i, n) == ClassAt(s, i, n, Digits)

UppersAt(s, i, n) == ClassAt(s, i, n, Uppers)

\* length of the longest run of characters of class starting at i
RECURSIVE RunLen(_, _, _)
RunLen(s, i, class) ==
    IF Ch(s, i) \in class THEN 1 + RunLen(s, i + 1, class) ELSE 0

\* position after a greedy \s* started at i
SkipWs(s, i) == i + RunLen(s, i, Spaces)

\* Body of v, with v evaluated once: a local variable of the code
With(v, Body(_)) == CHOOSE r \in {Body(x) : x \in {v}} : TRUE

SetMin(S) == CHOOSE x \in S : \A y \in S : x <= y

SetMax(S) == CHOOSE x \in S : \A y \in S : x >= y

\* re.search: the leftmost position where M matches, 0 when there is none
SearchFirst(s, M(_, _)) ==
    With({i \in 1..Len(s) : M(s, i)},
         LAMBDA hits : IF hits = {} THEN 0 ELSE SetMin(hits))

\* str.strip()
Strip(s) ==
    With({i \in 1..Len(s) : Ch(s, i) \notin Spaces},
         LAMBDA keep : IF keep = {} THEN "" ELSE SubSeq(s, SetMin(keep), SetMax(keep)))

\* x in text
Contains(s, lit) == \E i \in 1..Len(s) : LitAt(s, i, lit)

DigitVal == ("0" :> 0) @@ ("1" :> 1) @@ ("2" :> 2) @@ ("3" :> 3) @@ ("4" :> 4)
         @@ ("5" :> 5) @@ ("6" :> 6) @@ ("7" :> 7) @@ ("8" :> 8) @@ ("9" :> 9)

DigitStr == <<"0", "1", "2", "3", "4", "5", "6", "7", "8", "9">>

\* int(s) of a string of decimal digits
RECURSIVE StrToInt(_)
StrToInt(s) ==
    IF Len(s) = 0 THEN 0
    ELSE 10 * StrToInt(SubSeq(s, 1, Len(s) - 1)) + DigitVal[Ch(s, Len(s))]

\* f'{n:0{w}d}' of a natural number
RECURSIVE Pad(_, _)
Pad(n, w) ==
    IF w <= 1 /\ n < 10 THEN DigitStr[n + 1]
    ELSE Pad(n \div 10, w - 1) \o DigitStr[(n % 10) + 1]

(***************************************************************************)
(* src/collect_notam.py: NOTAMCollector._parse_notam_datetime              *)
(***************************************************************************)
IsLeap(y) == (y % 4 = 0 /\ y % 100 # 0) \/ y % 400 = 0

DaysIn(y, m) ==
    IF m = 2 THEN (IF IsLeap(y) THEN 29 ELSE 28)
    ELSE IF m \in {4, 6, 9, 11} THEN 30 ELSE 31

\* datetime(year, month, day, hour, minute): the arguments it accepts;
\* for any others it raises ValueError
DatetimeOk(y, m, d, h, mi) ==
    /\ y >= 1 /\ y <= 9999
    /\ m >= 1 /\ m <= 12
    /\ d >= 1 /\ d <= DaysIn(y, m)
    /\ h >= 0 /\ h <= 23
    /\ mi >= 0 /\ mi <= 59

\* datetime.isoformat() + 'Z' (seconds are always 0 here)
IsoFormat(y, m, d, h, mi) ==
    Pad(y, 4) \o "-" \o Pad(m, 2) \o "-" \o Pad(d, 2) \o "T"
        \o Pad(h, 2) \o ":" \o Pad(mi, 2) \o ":00Z"

\* the value an exception leaves in place of a result, until a handler
\* catches it
Raised == <<"raise">>

\* lines 416-422: the century of a two-digit year, given datetime.now().year
CenturyYear(yy, now_year) ==
    LET current_year == now_year % 100
    IN  IF yy > current_year + 5 THEN 1900 + yy ELSE 2000 + yy

\* the try body of _parse_notam_datetime: a result, None (fell through the
\* if/elif), or Raised (datetime() raised ValueError)
ParseNotamDatetimeBody(dt_str, now_year) ==
    LET Num(lo, hi) == StrToInt(SubSeq(dt_str, lo, hi))
        Made(year, month, day, hour, minute) ==
            IF DatetimeOk(year, month, day, hour, minute)
            THEN Some(IsoFormat(year, month, day, hour, minute))
            ELSE Raised
    IN  IF Len(dt_str) = 10 THEN
            \* YYMMDDHHmm
            With(<<CenturyYear(Num(1, 2), now_year), Num(3, 4), Num(5, 6), Num(7, 8),
                   Num(9, 10)>>,
                 LAMBDA f : Made(f[1], f[2], f[3], f[4], f[5]))
        ELSE IF Len(dt_str) = 12 THEN
            \* YYYYMMDDHHmm
            With(<<Num(1, 4), Num(5, 6), Num(7, 8), Num(9, 10), Num(11, 12)>>,
                 LAMBDA f : Made(f[1], f[2], f[3], f[4], f[5]))
        ELSE None

\* the method without its try/except: a ValueError leaves it
ParseNotamDatetimeUncaught(dt_str, now_year) == ParseNotamDatetimeBody(dt_str, now_year)

\* _parse_notam_datetime: "except Exception: pass", then "return None"
ParseNotamDatetime(dt_str, now_year) ==
    With(ParseNotamDatetimeBody(dt_str, now_year),
         LAMBDA r : IF r = Raised THEN None ELSE r)

(***************************************************************************)
(* src/collect_notam.py: the regular expressions of _parse_raw_notam       *)
(***************************************************************************)
\* ([A-Z]\d{4}/\d{2}) alone: the expression without \s+NOTAM([NRC])
IdAloneAt(s, i) ==
    /\ UppersAt(s, i, 1)
    /\ DigitsAt(s, i + 1, 4)
    /\ LitAt(s, i + 5, "/")
    /\ DigitsAt(s, i + 6, 2)

\* ([A-Z]\d{4}/\d{2})\s+NOTAM([NRC])
IdMatchAt(s, i) ==
    /\ UppersAt(s, i, 1)
    /\ DigitsAt(s, i + 1, 4)
    /\ LitAt(s, i + 5, "/")
    /\ DigitsAt(s, i + 6, 2)
    /\ Ch(s, i + 8) \in Spaces
    /\ LitAt(s, SkipWs(s, i + 8), "NOTAM")
    /\ Ch(s, SkipWs(s, i + 8) + 5) \in {"N", "R", "C"}

\* Q\)\s*([A-Z]{4})/(Q[A-Z]{4})/([IV]{1,2})/([A-Z]+)/([AEW]+)/(\d{3})/(\d{3})/
\*   (\d{4}[NS]\d{5}[EW])(\d{3})?
\* the positions of the groups when the expression matches at i; each
\* repetition is followed by "/", which is outside its class, so the run
\* length decides it
QGroups(s, i) ==
    With(SkipWs(s, i + 2), LAMBDA fir :
    With(fir + 11 + RunLen(s, fir + 11, {"I", "V"}) + 1, LAMBDA purp :
    With(purp + RunLen(s, purp, Uppers) + 1, LAMBDA scop :
    With(scop + RunLen(s, scop, {"A", "E", "W"}) + 1, LAMBDA low :
        [fir |-> fir, code |-> fir + 5, traf |-> fir + 11, ntraf |-> purp - fir - 12,
         purp |-> purp, npurp |-> scop - purp - 1, scop |-> scop,
         nscop |-> low - scop - 1, low |-> low, upp |-> low + 4, coor |-> low + 8]))))

QMatchAt(s, i) ==
    LitAt(s, i, "Q)") /\ With(QGroups(s, i), LAMBDA g :
        /\ UppersAt(s, g.fir, 4)
        /\ LitAt(s, g.fir + 4, "/Q")
        /\ UppersAt(s, g.code + 1, 4)
        /\ LitAt(s, g.code + 5, "/")
        /\ g.ntraf \in {1, 2}
        /\ LitAt(s, g.traf + g.ntraf, "/")
        /\ g.npurp >= 1
        /\ LitAt(s, g.purp + g.npurp, "/")
        /\ g.nscop >= 1
        /\ LitAt(s, g.scop + g.nscop, "/")
        /\ DigitsAt(s, g.low, 3)
        /\ LitAt(s, g.low + 3, "/")
        /\ DigitsAt(s, g.upp, 3)
        /\ LitAt(s, g.upp + 3, "/")
        /\ DigitsAt(s, g.coor, 4)
        /\ Ch(s, g.coor + 4) \in {"N", "S"}
        /\ DigitsAt(s, g.coor + 5, 5)
        /\ Ch(s, g.coor + 10) \in {"E", "W"})

\* lines 329-341: q_data, {} when the Q-line did not match
EmptyDict == <<>>

QData(s) ==
    With(SearchFirst(s, QMatchAt), LAMBDA i :
        IF i = 0 THEN EmptyDict
        ELSE With(QGroups(s, i), LAMBDA g :
             [fir         |-> SubSeq(s, g.fir, g.fir + 3),
              code        |-> SubSeq(s, g.code, g.code + 4),
              traffic     |-> SubSeq(s, g.traf, g.traf + g.ntraf - 1),
              purpose     |-> SubSeq(s, g.purp, g.purp + g.npurp - 1),
              scope       |-> SubSeq(s, g.scop, g.scop + g.nscop - 1),
              lower       |-> SubSeq(s, g.low, g.low + 2),
              upper       |-> SubSeq(s, g.upp, g.upp + 2),
              coordinates |-> SubSeq(s, g.coor, g.coor + 10),
              radius      |-> IF DigitsAt(s, g.coor + 11, 3)
                              THEN Some(SubSeq(s, g.coor + 11, g.coor + 13))
                              ELSE None]))

\* d[key] in place of d.get(key): KeyError when the key is missing
DictIndex(d, k) == IF k \in DOMAIN d THEN Some(d[k]) ELSE Raised

\* dict.get(key): None when the key is missing
DictGet(d, k) == IF k \in DOMAIN d THEN Some(d[k]) ELSE None

\* A\)\s*([A-Z]{4})
AMatchAt(s, i) == LitAt(s, i, "A)") /\ UppersAt(s, SkipWs(s, i + 2), 4)

\* B\)\s*(\d{10,12})
BMatchAt(s, i) ==
    LitAt(s, i, "B)") /\ RunLen(s, SkipWs(s, i + 2), Digits) >= 10

\* the group of \d{10,12} at j: greedy, at most 12 digits
DigitGroup(s, j) ==
    With(RunLen(s, j, Digits),
         LAMBDA n : SubSeq(s, j, j + (IF n > 12 THEN 12 ELSE n) - 1))

\* C\)\s*(\d{10,12}|PERM|EST)
CMatchAt(s, i) ==
    /\ LitAt(s, i, "C)")
    /\ With(SkipWs(s, i + 2), LAMBDA j :
           \/ RunLen(s, j, Digits) >= 10
           \/ LitAt(s, j, "PERM")
           \/ LitAt(s, j, "EST"))

CGroup(s, i) ==
    With(SkipWs(s, i + 2), LAMBDA j :
        IF RunLen(s, j, Digits) >= 10 THEN DigitGroup(s, j)
        ELSE IF LitAt(s, j, "PERM") THEN "PERM" ELSE "EST")

\* <letter>\)\s*([^\n]+) at i: where the group starts, 0 when there is no
\* match at i.  \s* is greedy; when it runs to the end of the text it gives
\* back its last character that is not a newline, which the group takes.
LineStart(s, i) ==
    With(SkipWs(s, i + 2), LAMBDA j :
        IF j <= Len(s) THEN j
        ELSE With({k \in (i + 2)..Len(s) : Ch(s, k) # NL},
                  LAMBDA back : IF back # {} THEN SetMax(back) ELSE 0))

\* the group [^\n]+ from j: up to the end of the line
LineGroup(s, j) ==
    With({k \in j..Len(s) : Ch(s, k) = NL},
         LAMBDA ends : SubSeq(s, j, IF ends = {} THEN Len(s) ELSE SetMin(ends) - 1))

DMatchAt(s, i) == LitAt(s, i, "D)") /\ LineStart(s, i) # 0

FMatchAt(s, i) == LitAt(s, i, "F)") /\ LineStart(s, i) # 0

GMatchAt(s, i) == LitAt(s, i, "G)") /\ LineStart(s, i) # 0

\* the captured line of D), F) or G), stripped; None when there is no match
LineField(s, i) ==
    IF i = 0 THEN None
    ELSE With(LineGroup(s, LineStart(s, i)), LAMBDA line : Some(Strip(line)))

\* E\)\s*(.+?)(?=\s*[FG]\)|$) with re.DOTALL
\* the lookahead at position p: optional whitespace then F) or G), or the
\* end of the text ($ also matches before a final newline)
ELookahead(s, p) ==
    \/ With(SkipWs(s, p), LAMBDA j : LitAt(s, j, "F)") \/ LitAt(s, j, "G)"))
    \/ p = Len(s) + 1
    \/ (p = Len(s) /\ Ch(s, p) = NL)

EMatchAt(s, i) == LitAt(s, i, "E)") /\ i + 2 <= Len(s)

\* the group (.+?): from the position the greedy \s* leaves (or gives
\* back) to the first position the lookahead accepts
EGroup(s, i) ==
    With(SkipWs(s, i + 2), LAMBDA j :
    With(IF j <= Len(s) THEN j ELSE Len(s), LAMBDA start :
        SubSeq(s, start, SetMin({e \in start..Len(s) : ELookahead(s, e + 1)}))))

(***************************************************************************)
(* src/collect_notam.py: NOTAMCollector._parse_raw_notam                   *)
(***************************************************************************)
\* the group of A\)\s*([A-Z]{4}) matched at i
AGroup(s, i) == With(SkipWs(s, i + 2), LAMBDA j : SubSeq(s, j, j + 3))

\* the two sources of the location the other way round: the FIR first
LocationFirFirst(s, q_data) ==
    With(SearchFirst(s, AMatchAt), LAMBDA i :
        IF DictGet(q_data, "fir") # None THEN DictGet(q_data, "fir")
        ELSE IF i # 0 THEN Some(AGroup(s, i))
        ELSE None)

\* lines 343-345: the A) code, else q_data.get('fir')
Location(s, q_data) ==
    With(SearchFirst(s, AMatchAt), LAMBDA i :
        IF i # 0 THEN Some(AGroup(s, i)) ELSE DictGet(q_data, "fir"))

\* lines 347-349
ValidFrom(s, now_year) ==
    With(SearchFirst(s, BMatchAt), LAMBDA i :
        IF i # 0
        THEN With(DigitGroup(s, SkipWs(s, i + 2)),
                  LAMBDA b_value : ParseNotamDatetime(b_value, now_year))
        ELSE None)

\* a C) field whose PERM is kept as the end of the validity as well
ValidToKeepsPerm(s, now_year) ==
    With(SearchFirst(s, CMatchAt), LAMBDA i :
        IF i = 0 THEN <<None, FALSE>>
        ELSE With(CGroup(s, i), LAMBDA c_value :
                IF c_value = "PERM" THEN <<Some("PERM"), TRUE>>
                ELSE IF c_value = "EST" THEN <<Some("EST"), FALSE>>
                ELSE <<ParseNotamDatetime(c_value, now_year), FALSE>>))

\* lines 351-362: <<valid_to, is_permanent>>
ValidTo(s, now_year) ==
    With(SearchFirst(s, CMatchAt), LAMBDA i :
        IF i = 0 THEN <<None, FALSE>>
        ELSE With(CGroup(s, i), LAMBDA c_value :
                IF c_value = "PERM" THEN <<None, TRUE>>
                ELSE IF c_value = "EST" THEN <<Some("EST"), FALSE>>
                ELSE <<ParseNotamDatetime(c_value, now_year), FALSE>>))

\* lines 368-370
Description(s) ==
    With(SearchFirst(s, EMatchAt), LAMBDA i :
        IF i = 0 THEN None
        ELSE With(EGroup(s, i), LAMBDA e_value : Some(Strip(e_value))))

\* lines 364-366, 372-378: D), F) and G)
Schedule(s) == With(SearchFirst(s, DMatchAt), LAMBDA i : LineField(s, i))

LowerLimit(s) == With(SearchFirst(s, FMatchAt), LAMBDA i : LineField(s, i))

UpperLimit(s) == With(SearchFirst(s, GMatchAt), LAMBDA i : LineField(s, i))

\* lines 381-395: the record
NotamRecord(text, id, q_data, location, from, to) ==
    [id              |-> SubSeq(text, id, id + 7),
     type            |-> Ch(text, SkipWs(text, id + 8) + 5),
     q_code          |-> DictGet(q_data, "code"),
     location        |-> location,
     valid_from      |-> from,
     valid_to        |-> to[1],
     is_permanent    |-> to[2],
     schedule        |-> Schedule(text),
     description_raw |-> Description(text),
     lower_limit     |-> LowerLimit(text),
     upper_limit     |-> UpperLimit(text),
     q_data          |-> q_data,
     raw             |-> Strip(text)]

\* the whole method: None, or Some(record).  An exception anywhere in the
\* try block (lines 314-401) is caught, and the method returns None.
ParseRawNotam(text, now_year) ==
    With(SearchFirst(text, IdMatchAt), LAMBDA id :
        IF id = 0 THEN None
        ELSE With(QData(text), LAMBDA q_data :
             With(<<DictGet(q_data, "code"), Location(text, q_data),
                    ValidFrom(text, now_year)>>, LAMBDA f :
             With(ValidTo(text, now_year), LAMBDA to :
                IF Raised \in {f[1], f[2], f[3], to[1]} THEN None
                ELSE Some(NotamRecord(text, id, q_data, f[2], f[3], to))))))

(***************************************************************************)
(* The raw NOTAM text blocks handed to _parse_raw_notam                    *)
(*                                                                         *)
(* A block is described by its parts: up to two ID groups (an ID, a run    *)
(* of blanks, NOTAM and a kind letter), a Q-line, and the lettered fields  *)
(* A) to G); "" is a part that is not in the block.  The block is laid     *)
(* out as NOTAMs are: the ID line, the Q-line, A) B) C) on one line, then  *)
(* D), E), F) and G) on lines of their own.                                *)
(***************************************************************************)
\* the longest run of blanks between an ID and NOTAM, and after a field marker
MaxWs == 2

RECURSIVE Ws(_)
Ws(k) == IF k = 0 THEN "" ELSE " " \o Ws(k - 1)

GoodIds == {"A1234/24", "Z0001/25"}

BadIds == {"A123/24", "a1234/24", "A1234-24", "A1234/2X"}

KindLetters == {"N", "R", "C"}

IdGroupText(g) == g.id \o Ws(g.ws) \o "NOTAM" \o g.kind

IdGroupValid(g) == g.id \in GoodIds /\ g.ws >= 1 /\ g.kind \in KindLetters

IdGroups == [id : GoodIds \cup BadIds, ws : 0..MaxWs, kind : KindLetters \cup {"X"}]

NoGroup == [id |-> "", ws |-> 0, kind |-> ""]

Line(x) == IF x = "" THEN "" ELSE x \o NL

JoinSp(x, y) == IF x = "" THEN y ELSE IF y = "" THEN x ELSE x \o " " \o y

NotamText(a) ==
    Line(JoinSp(IF a.id1 = NoGroup THEN "" ELSE IdGroupText(a.id1),
                IF a.id2 = NoGroup THEN "" ELSE IdGroupText(a.id2)))
        \o Line(a.q) \o Line(JoinSp(a.a, JoinSp(a.b, a.c)))
        \o Line(a.d) \o Line(a.e) \o Line(a.f) \o Line(a.g)

StdId == [id |-> "A1234/24", ws |-> 1, kind |-> "N"]
StdQ == "Q) UAAA/QMRLC/IV/NBO/A/000/999/4321N07654E005"
StdA == "A) UACC"
StdB == "B) 2403011230"
StdC == "C) 2403051800"
StdD == "D) DAILY 0600-1800"
StdE == "E) RWY 05/23 CLSD\nDUE MAINT"
StdF == "F) GND"
StdG == "G) FL100"

StdNotam == [id1 |-> StdId, id2 |-> NoGroup, q |-> StdQ, a |-> StdA, b |-> StdB,
             c |-> StdC, d |-> StdD, e |-> StdE, f |-> StdF, g |-> StdG,
             now |-> 2024]

\* Q-lines: well formed with and without radius, and with one sub-part that
\* does not match while the FIR does
QWithRadius == {StdQ, "Q)UACC/QFALC/I/B/AE/010/120/4321S07654W120"}

QNoRadius == {"Q) UAAA/QOBCE/V/M/W/000/050/5112N07123E"}

QBroken == {"Q) UAAA/QMRL/IV/NBO/A/000/999/4321N07654E005",
            "Q) UAAA/QMRLC/IVI/NBO/A/000/999/4321N07654E005",
            "Q) UAAA/QMRLC/IV/NBO/X/000/999/4321N07654E005",
            "Q) UAAA/QMRLC/IV/NBO/A/00/999/4321N07654E005",
            "Q) UAAA/QMRLC/IV/NBO/A/000/999/4321N7654E005"}

QLines == QWithRadius \cup QNoRadius \cup QBroken

\* the FIR and the Q-code a well-formed Q-line of QLines carries
QFir(q) == IF q = StdQ \/ q \in QNoRadius THEN "UAAA" ELSE "UACC"

QCodeOf(q) == IF q = StdQ THEN "QMRLC" ELSE IF q \in QNoRadius THEN "QOBCE" ELSE "QFALC"

\* A) fields: a 4-letter code after 0..MaxWs blanks; and a field whose code
\* is too short to be one
ACode(k) == "A)" \o Ws(k) \o "UACC"

AShort == "A) UA"

\* B) / C) timestamps that decode, with the year, and those that do not:
\* month, day, hour or minute out of range, or 11 digits
GoodStamps == {"2403011230", "2402291230", "202403011230", "9912312359"}

BadStamps == {"2413011230", "2400011230", "2402301230", "2404311230",
              "2403012430", "2403011260", "24030112301", "202413011230"}

\* digit runs that are not 10 to 12 digits long: 9 digits; 13 digits of
\* which the first 12 are no date; 13 digits of which the first 12 are one
ShortStamps == {"240301123"}

LongBadStamps == {"2403011230123"}

LongGoodStamps == {"2024030112309"}

Stamps == GoodStamps \cup BadStamps \cup ShortStamps \cup LongBadStamps \cup LongGoodStamps

\* values of datetime.now().year
NowYears == {2000, 2024, 2026, 2094, 2095, 2099, 2100, 2101}

\* E) fields: of two lines, with a word or a parenthesis that ends in F) or
\* G), and without a blank after the marker
EFields ==
    {StdE, "E) TWY B CLSD (AIP REF) DUE WIP", "E) OBST LGT U/S\nPSN (BLDG)\nHGT 45M",
     "E)RWY CLSD"}

Present(std, on) == IF on THEN std ELSE ""

NotamArgs ==
    \* which ID groups the block holds
    {[StdNotam EXCEPT !.id1 = g1, !.id2 = g2] :
        g1 \in IdGroups, g2 \in {NoGroup, StdId, [StdId EXCEPT !.id = "Z0001/25", !.kind = "R"]}}
    \cup {[StdNotam EXCEPT !.id1 = NoGroup]}
    \* the Q-line and the A) field
    \cup {[StdNotam EXCEPT !.q = q, !.a = a] :
            q \in QLines \cup {""}, a \in {ACode(k) : k \in 0..MaxWs} \cup {"", AShort}}
    \* the B) and C) timestamps
    \cup {[StdNotam EXCEPT !.b = "B) " \o b, !.c = "C) " \o c, !.now = y] :
            b \in Stamps, c \in Stamps \cup {"PERM", "EST"}, y \in {2024, 2100}}
    \* every two-digit year under every clock
    \cup {[StdNotam EXCEPT !.b = "B) " \o Pad(yy, 2) \o "03011230", !.now = y] :
            yy \in 0..99, y \in NowYears}
    \* which of the parts are there at all
    \cup {[StdNotam EXCEPT !.q = Present(StdQ, on[1]), !.a = Present(StdA, on[2]),
                           !.b = Present(StdB, on[3]), !.c = Present(StdC, on[4]),
                           !.d = Present(StdD, on[5]), !.e = Present(StdE, on[6]),
                           !.f = Present(StdF, on[7]), !.g = Present(StdG, on[8])] :
            on \in [1..8 -> BOOLEAN]}
    \* the E) field, before an F) and a G) field or before the end of the text
    \cup {[StdNotam EXCEPT !.e = e, !.f = f, !.g = g] :
            e \in EFields, f \in {StdF, ""}, g \in {StdG, ""}}

(***************************************************************************)
(* src/notam_decoder.py: Q_CODES, NOTAMDecoder._classify_severity and the  *)
(* part of NOTAMDecoder.decode that derives from the Q-code                *)
(*                                                                         *)
(* The category texts of Q_CODES are given in English, the emoji by name.  *)
(* 'QFAXX' is a key twice in the source; the dict keeps the later value.   *)
(***************************************************************************)
Q_CODES ==
    ("QFALC" :> "aerodrome closed") @@
    ("QFALT" :> "alternate aerodrome available") @@
    ("QMRLC" :> "runway closed") @@
    ("QMRLT" :> "runway partially closed") @@
    ("QMRXX" :> "runway: other") @@
    ("QMRAS" :> "runway: length reduced") @@
    ("QMRCC" :> "runway: surface condition changed") @@
    ("QMXLC" :> "taxiway closed") @@
    ("QMXLT" :> "taxiway partially closed") @@
    ("QMXXX" :> "taxiway: other") @@
    ("QMALC" :> "apron closed") @@
    ("QMALT" :> "apron partially closed") @@
    ("QMAXX" :> "apron: other") @@
    ("QMGXX" :> "aerodrome lights: other") @@
    ("QMGLU" :> "runway lights unserviceable") @@
    ("QMGLT" :> "taxiway lights unserviceable") @@
    ("QMGLA" :> "apron lights unserviceable") @@
    ("QNIAS" :> "ILS unserviceable") @@
    ("QNIAT" :> "ILS limited") @@
    ("QNIXX" :> "ILS: other") @@
    ("QNVXX" :> "VOR: other") @@
    ("QNVAU" :> "VOR unserviceable") @@
    ("QNDXX" :> "DME: other") @@
    ("QNDAU" :> "DME unserviceable") @@
    ("QNNXX" :> "NDB: other") @@
    ("QNNAU" :> "NDB unserviceable") @@
    ("QRRCA" :> "airspace restriction active") @@
    ("QRRCT" :> "temporary airspace restriction") @@
    ("QRPCA" :> "prohibited area active") @@
    ("QRDCA" :> "danger area active") @@
    ("QRTCA" :> "temporary area active") @@
    ("QRAXX" :> "airspace: other") @@
    ("QOBXX" :> "obstacle: other") @@
    ("QOBCE" :> "obstacle erected") @@
    ("QOBCL" :> "obstacle lit") @@
    ("QFAXX" :> "communications: other") @@
    ("QFPXX" :> "flight procedures: other") @@
    ("QWFXX" :> "weather forecast: other") @@
    ("QWEAU" :> "weather station unserviceable") @@
    ("QSAXX" :> "air navigation service: other") @@
    ("QSXXX" :> "services: other") @@
    ("QSFAU" :> "fuel not available") @@
    ("QSUAS" :> "search and rescue: other") @@
    ("QSGAS" :> "ground handling limited") @@
    ("QXXXX" :> "other")

\* Q_CODES.get(q_code, q_code)
QCodesGet(q_code) == IF q_code \in DOMAIN Q_CODES THEN Q_CODES[q_code] ELSE q_code

critical_patterns == {"QFALC", "QMRLC", "QMXLC", "QNIAS"}

warning_patterns == <<"QMRLT", "QMALC", "QMGLU", "QRRCA", "QOBXX">>

\* str.startswith(prefix)
StartsWith(s, prefix) == LitAt(s, 1, prefix)

\* the two tests the other way round: the prefixes first
ClassifyPrefixFirst(q_code) ==
    IF \E k \in 1..Len(warning_patterns) :
          StartsWith(q_code, SubSeq(warning_patterns[k], 1, 4))
    THEN "warning"
    ELSE IF q_code \in critical_patterns THEN "critical"
    ELSE "info"

\* the exact match goes first, the prefixes of the warning patterns after
ClassifySeverity(q_code) ==
    IF q_code \in critical_patterns THEN "critical"
    ELSE IF \E k \in 1..Len(warning_patterns) :
                StartsWith(q_code, SubSeq(warning_patterns[k], 1, 4))
         THEN "warning"
    ELSE "info"

GetSeverityEmoji(severity) ==
    IF severity = "critical" THEN "red circle"
    ELSE IF severity = "warning" THEN "yellow circle"
    ELSE IF severity = "info" THEN "blue circle"
    ELSE "white circle"

\* decode, lines 198-224: the fields copied from notam_data and those
\* derived from q_code; "if decoded['q_code']" is false for None and for ''
DecodeQFields(notam_data) ==
    LET q_code == notam_data.q_code
        has    == q_code # None /\ Val(q_code) # ""
    IN  [id             |-> notam_data.id,
         type           |-> notam_data.type,
         q_code         |-> q_code,
         q_decoded      |-> IF has THEN Some(QCodesGet(Val(q_code))) ELSE None,
         severity       |-> IF has THEN Some(ClassifySeverity(Val(q_code))) ELSE None,
         severity_emoji |-> IF has THEN Some(GetSeverityEmoji(ClassifySeverity(Val(q_code))))
                            ELSE None,
         location       |-> notam_data.location,
         valid_from     |-> notam_data.valid_from,
         valid_to       |-> notam_data.valid_to,
         is_permanent   |-> notam_data.is_permanent,
         raw            |-> notam_data.raw]

\* the 5-character Q-codes handed to decode: every family of Q_CODES and
\* some of no family, each with every last letter that occurs
QFamilies == {SubSeq(k, 1, 4) : k \in DOMAIN Q_CODES} \cup {"QZZZ", "QOBZ", "QMRZ", "QRRX"}

QLastLetters == {SubSeq(k, 5, 5) : k \in DOMAIN Q_CODES} \cup {"Z"}

QCodeInputs == {f \o l : f \in QFamilies, l \in QLastLetters}

\* a parsed NOTAM record as decode receives it
StdNotamRecord == Val(ParseRawNotam(NotamText(StdNotam), StdNotam.now))

(***************************************************************************)
(* src/taf_decoder.py: the field parsers of TAFDecoder                     *)
(*                                                                         *)
(* The 'text' values, Russian with emoji in the source, are given in       *)
(* English with the emoji by name; the values formatted into them are      *)
(* those of the source.                                                    *)
(***************************************************************************)
\* str(n) and f'{n:+d}' of an integer
Str(n) == IF n < 0 THEN "-" \o Pad(0 - n, 1) ELSE Pad(n, 1)

SignedStr(n) == IF n < 0 THEN Str(n) ELSE "+" \o Str(n)

\* str.split(): the maximal runs of characters that are not whitespace
SplitWs(s) ==
    With({i \in 1..Len(s) : Ch(s, i) \notin Spaces /\ (i = 1 \/ Ch(s, i - 1) \in Spaces)},
         LAMBDA starts :
    With({i \in 1..Len(s) : Ch(s, i) \notin Spaces /\ (i = Len(s) \/ Ch(s, i + 1) \in Spaces)},
         LAMBDA ends :
        [k \in 1..Cardinality(starts) |->
            SubSeq(s, CHOOSE b \in starts : Cardinality({i \in starts : i <= b}) = k,
                      CHOOSE e \in ends : Cardinality({i \in ends : i <= e}) = k)]))

\* sep.join(list)
RECURSIVE Join(_, _)
Join(list, sep) ==
    IF Len(list) = 0 THEN ""
    ELSE IF Len(list) = 1 THEN list[1]
    ELSE With(Len(list) \div 2, LAMBDA m :
            Join(SubSeq(list, 1, m), sep) \o sep \o Join(SubSeq(list, m + 1, Len(list)), sep))

\* line 161: ' '.join(self.raw_taf.split())
Normalize(raw) == With(SplitWs(raw), LAMBDA words : Join(words, " "))

\* TAF\s+(?:AMD\s+|COR\s+)?([A-Z]{4}): where the group starts when the
\* expression matches at i, 0 when it does not
StationStart(s, i) ==
    IF ~(LitAt(s, i, "TAF") /\ Ch(s, i + 3) \in Spaces) THEN 0
    ELSE With(SkipWs(s, i + 3), LAMBDA j :
         With(SkipWs(s, j + 3), LAMBDA k :
            IF /\ (LitAt(s, j, "AMD") \/ LitAt(s, j, "COR"))
               /\ Ch(s, j + 3) \in Spaces
               /\ UppersAt(s, k, 4)
            THEN k
            ELSE IF UppersAt(s, j, 4) THEN j
            ELSE 0))

StationAt(s, i) == StationStart(s, i) # 0

\* ([0-3]\d)([0-2]\d)([0-5]\d)Z
IssueAt(s, i) ==
    /\ Ch(s, i) \in {"0", "1", "2", "3"}
    /\ Ch(s, i + 1) \in Digits
    /\ Ch(s, i + 2) \in {"0", "1", "2"}
    /\ Ch(s, i + 3) \in Digits
    /\ Ch(s, i + 4) \in {"0", "1", "2", "3", "4", "5"}
    /\ Ch(s, i + 5) \in Digits
    /\ Ch(s, i + 6) = "Z"

\* ([0-3]\d)([0-2]\d)/([0-3]\d)([0-2]\d)
ValidAt(s, i) ==
    /\ Ch(s, i) \in {"0", "1", "2", "3"}
    /\ Ch(s, i + 1) \in Digits
    /\ Ch(s, i + 2) \in {"0", "1", "2"}
    /\ Ch(s, i + 3) \in Digits
    /\ Ch(s, i + 4) = "/"
    /\ Ch(s, i + 5) \in {"0", "1", "2", "3"}
    /\ Ch(s, i + 6) \in Digits
    /\ Ch(s, i + 7) \in {"0", "1", "2"}
    /\ Ch(s, i + 8) \in Digits

Int2(s, i) == StrToInt(SubSeq(s, i, i + 1))

\* lines 180-182
Station(t) ==
    With(SearchFirst(t, StationAt), LAMBDA st :
        IF st = 0 THEN None
        ELSE With(StationStart(t, st), LAMBDA k : Some(SubSeq(t, k, k + 3))))

\* lines 185-195
IssueTime(t) ==
    With(SearchFirst(t, IssueAt), LAMBDA is :
        IF is = 0 THEN None
        ELSE Some([day    |-> Int2(t, is),
                   hour   |-> Int2(t, is + 2),
                   minute |-> Int2(t, is + 4),
                   text   |-> "day " \o SubSeq(t, is, is + 1) \o ", "
                                \o SubSeq(t, is + 2, is + 3) \o ":"
                                \o SubSeq(t, is + 4, is + 5) \o " UTC"]))

\* lines 198-211
ValidPeriod(t) ==
    With(SearchFirst(t, ValidAt), LAMBDA va :
        IF va = 0 THEN None
        ELSE Some([from_day  |-> Int2(t, va),
                   from_hour |-> Int2(t, va + 2),
                   to_day    |-> Int2(t, va + 5),
                   to_hour   |-> Int2(t, va + 7),
                   text      |-> "from day " \o SubSeq(t, va, va + 1) \o " "
                                   \o SubSeq(t, va + 2, va + 3) \o ":00 to day "
                                   \o SubSeq(t, va + 5, va + 6) \o " "
                                   \o SubSeq(t, va + 7, va + 8) \o ":00 UTC"]))

\* a header read only after its station: without one nothing is kept
ParseHeaderAfterStation(t) ==
    IF Station(t) = None
    THEN [station |-> None, issue_time |-> None, valid_period |-> None]
    ELSE [station |-> Station(t), issue_time |-> IssueTime(t), valid_period |-> ValidPeriod(t)]

\* _parse_header: the three header fields of self.decoded
ParseHeader(t) ==
    [station |-> Station(t), issue_time |-> IssueTime(t), valid_period |-> ValidPeriod(t)]

\* (KT|MPS) at j: the unit, "" when neither is there
UnitAt(s, j) ==
    IF LitAt(s, j, "KT") THEN "KT" ELSE IF LitAt(s, j, "MPS") THEN "MPS" ELSE ""

\* (\d{2,3})(G(\d{2,3}))?(KT|MPS) at j, the tail of both wind patterns:
\* <<digits of the speed, digits of the gusts (0: no gust group), unit>>,
\* or <<0, 0, "">> when it does not match.  A digit run is followed by G, K
\* or M, so its length decides the repetition.
WindTail(s, j) ==
    With(RunLen(s, j, Digits), LAMBDA n :
        IF n \notin {2, 3} THEN <<0, 0, "">>
        ELSE With(RunLen(s, j + n + 1, Digits), LAMBDA m :
             With(<<UnitAt(s, j + n + 1 + m), UnitAt(s, j + n)>>, LAMBDA unit :
                IF Ch(s, j + n) = "G" /\ m \in {2, 3} /\ unit[1] # ""
                THEN <<n, m, unit[1]>>
                ELSE IF unit[2] # "" THEN <<n, 0, unit[2]>>
                ELSE <<0, 0, "">>)))

\* VRB(\d{2,3})(G(\d{2,3}))?(KT|MPS)
VrbAt(s, i) == LitAt(s, i, "VRB") /\ WindTail(s, i + 3)[1] # 0

\* (\d{3})(\d{2,3})(G(\d{2,3}))?(KT|MPS)
WindAt(s, i) == DigitsAt(s, i, 3) /\ WindTail(s, i + 3)[1] # 0

\* int(x * 0.514): the product of a value below 1000 with the double 0.514,
\* truncated, is floor(x * 514 / 1000)
KtToMps(x) == (x * 514) \div 1000

directions == <<"N", "NE", "E", "SE", "S", "SW", "W", "NW">>

\* int((direction + 22.5) / 45) % 8
DirIdx(direction) == ((2 * direction + 45) \div 90) % 8

\* lines 253-259 and 278-284: <<speed_mps, gusts_mps>> from the groups at j.
\* "if gusts" is false for an absent group and for a gust value of 0.
WindSpeeds(s, j) ==
    With(WindTail(s, j), LAMBDA t :
    With(StrToInt(SubSeq(s, j, j + t[1] - 1)), LAMBDA speed :
    With(IF t[2] = 0 THEN None
         ELSE Some(StrToInt(SubSeq(s, j + t[1] + 1, j + t[1] + t[2]))), LAMBDA gusts :
    With(gusts # None /\ Val(gusts) # 0, LAMBDA truthy :
        IF t[3] = "KT"
        THEN <<KtToMps(speed), IF truthy THEN Some(KtToMps(Val(gusts))) ELSE None, truthy>>
        ELSE <<speed, gusts, truthy>>))))

GustText(sp) ==
    IF sp[3] THEN ", gusts to " \o Str(Val(sp[2])) \o " m/s" ELSE ""

\* lines 248-268: the variable wind of the match at v
VariableWind(text, v) ==
    With(WindSpeeds(text, v + 3), LAMBDA sp :
        [speed     |-> sp[1],
         direction |-> Some("variable"),
         gusts     |-> sp[2],
         text      |-> "wind: variable direction " \o Str(sp[1]) \o " m/s" \o GustText(sp)])

\* lines 272-299: the wind of the match at w
FixedWind(text, w) ==
    With(WindSpeeds(text, w + 3), LAMBDA sp :
    With(StrToInt(SubSeq(text, w, w + 2)), LAMBDA direction :
    With(directions[DirIdx(direction) + 1], LAMBDA dir_text :
        [speed          |-> sp[1],
         direction      |-> Some(direction),
         direction_text |-> dir_text,
         gusts          |-> sp[2],
         text           |-> "wind: " \o dir_text \o " (" \o Str(direction) \o " deg) "
                               \o Str(sp[1]) \o " m/s" \o GustText(sp)])))

\* _parse_wind
ParseWind(text) ==
    IF Contains(text, "00000KT") \/ Contains(text, "00000MPS")
    THEN Some([speed |-> 0, direction |-> None, gusts |-> None, text |-> "wind: calm"])
    ELSE With(SearchFirst(text, VrbAt), LAMBDA v :
            IF v # 0 THEN Some(VariableWind(text, v))
            ELSE With(SearchFirst(text, WindAt), LAMBDA w :
                    IF w # 0 THEN Some(FixedWind(text, w)) ELSE None))

\* \s(\d{4})\s
VisAt(s, i) == Ch(s, i) \in Spaces /\ DigitsAt(s, i + 1, 4) /\ Ch(s, i + 5) \in Spaces

\* f'{meters / 1000:.1f}': the tenths of a kilometre.  A value that ends in
\* 50 lies halfway; the double nearest to meters/1000 then decides, and
\* these are the values of 1000..9999 it rounds up.
KmTiesUp ==
    {1050, 1350, 1550, 1750, 1850, 2350, 2450, 2750, 2850, 2950, 3350, 3450,
     3750, 3850, 3950, 4150, 4450, 4650, 4750, 4950, 5150, 5450, 5650, 5750,
     5950, 6150, 6450, 6650, 6750, 6950, 7150, 7450, 7650, 7750, 7950, 8050,
     8150, 8550, 8650, 8750, 9050, 9150, 9550, 9650, 9750}

KmTenths(meters) ==
    IF meters % 100 > 50 \/ (meters % 100 = 50 /\ meters \in KmTiesUp)
    THEN meters \div 100 + 1
    ELSE meters \div 100

KmText(meters) ==
    With(KmTenths(meters), LAMBDA tenths : Str(tenths \div 10) \o "." \o Str(tenths % 10))

Quality(meters) ==
    IF meters >= 5000 THEN "good"
    ELSE IF meters >= 3000 THEN "moderate"
    ELSE IF meters >= 1000 THEN "limited"
    ELSE "poor"

\* lines 323-344: the visibility of the match at i
MetersVisibility(text, i) ==
    With(StrToInt(SubSeq(text, i + 1, i + 4)), LAMBDA meters :
    With(Quality(meters), LAMBDA quality :
        [meters  |-> meters,
         quality |-> quality,
         text    |-> IF meters >= 1000
                     THEN "visibility " \o KmText(meters) \o " km (" \o quality \o ")"
                     ELSE "visibility " \o Str(meters) \o " m (" \o quality \o ")"]))

\* _parse_visibility
ParseVisibility(text) ==
    IF Contains(text, "CAVOK")
    THEN Some([meters |-> 10000,
               text |-> "visibility over 10 km, no cloud below 1500 m, no thunderstorm (CAVOK)"])
    ELSE IF Contains(text, "9999")
    THEN Some([meters |-> 10000, text |-> "visibility 10 km or more"])
    ELSE With(SearchFirst(text, VisAt), LAMBDA i :
            IF i # 0 THEN Some(MetersVisibility(text, i)) ELSE None)

CLOUD_COVER ==
    ("SKC" :> "clear") @@ ("CLR" :> "clear") @@ ("NSC" :> "no significant cloud") @@
    ("NCD" :> "no cloud detected") @@ ("FEW" :> "few (1-2 oktas)") @@
    ("SCT" :> "scattered (3-4 oktas)") @@ ("BKN" :> "broken (5-7 oktas)") @@
    ("OVC" :> "overcast (8 oktas)") @@ ("VV" :> "vertical visibility")

CLOUD_TYPES ==
    ("CB" :> "cumulonimbus") @@ ("TCU" :> "towering cumulus") @@ ("CI" :> "cirrus") @@
    ("CC" :> "cirrocumulus") @@ ("CS" :> "cirrostratus") @@ ("AC" :> "altocumulus") @@
    ("AS" :> "altostratus") @@ ("NS" :> "nimbostratus") @@ ("SC" :> "stratocumulus") @@
    ("ST" :> "stratus") @@ ("CU" :> "cumulus")

\* (FEW|SCT|BKN|OVC|VV) at i: the cover, "" when none is there
CoverAt(s, i) ==
    IF LitAt(s, i, "FEW") THEN "FEW" ELSE IF LitAt(s, i, "SCT") THEN "SCT"
    ELSE IF LitAt(s, i, "BKN") THEN "BKN" ELSE IF LitAt(s, i, "OVC") THEN "OVC"
    ELSE IF LitAt(s, i, "VV") THEN "VV" ELSE ""

\* (FEW|SCT|BKN|OVC|VV)(\d{3})(CB|TCU)?
CloudAt(s, i) ==
    With(CoverAt(s, i), LAMBDA cover : cover # "" /\ DigitsAt(s, i + Len(cover), 3))

\* (CB|TCU)? at j
CloudTypeAt(s, j) ==
    IF LitAt(s, j, "CB") THEN Some("CB") ELSE IF LitAt(s, j, "TCU") THEN Some("TCU")
    ELSE None

\* round(height_ft * 0.3048) in place of int(): to the nearest metre
FtToMRounded(height_ft) == (height_ft * 3048 + 5000) \div 10000

\* int(height_ft * 0.3048): for a multiple of 100 below 100000 the product
\* with the double 0.3048, truncated, is floor(height_ft * 3048 / 10000)
FtToM(height_ft) == (height_ft * 3048) \div 10000

\* lines 434-452: the layer of the match at i
CloudLayer(s, i) ==
    With(CoverAt(s, i), LAMBDA cover :
    With(CloudTypeAt(s, i + Len(cover) + 3), LAMBDA cloud_type :
    With(StrToInt(SubSeq(s, i + Len(cover), i + Len(cover) + 2)) * 100, LAMBDA height_ft :
    With(FtToM(height_ft), LAMBDA height_m :
        [cover      |-> cover,
         cover_text |-> CLOUD_COVER[cover],
         height_ft  |-> height_ft,
         height_m   |-> height_m,
         type       |-> cloud_type,
         text       |-> "cloud: " \o CLOUD_COVER[cover] \o " at " \o Str(height_m)
                           \o "m (" \o Str(height_ft) \o "ft)"
                           \o (IF cloud_type = None THEN ""
                               ELSE ", " \o CLOUD_TYPES[Val(cloud_type)])]))))

\* re.finditer: the leftmost match from position p, 0 when there is none
FirstCloud(s, p) ==
    With({i \in p..Len(s) : CloudAt(s, i)},
         LAMBDA hits : IF hits = {} THEN 0 ELSE SetMin(hits))

\* re.finditer from position p: the matches left to right, none overlapping
RECURSIVE CloudsFrom(_, _)
CloudsFrom(s, p) ==
    With(FirstCloud(s, p), LAMBDA i :
        IF i = 0 THEN <<>>
        ELSE With(CloudLayer(s, i), LAMBDA layer :
                <<layer>> \o CloudsFrom(s, i + Len(layer.cover) + 3
                    + (IF layer.type = None THEN 0 ELSE Len(Val(layer.type))))))

\* _parse_clouds
ParseClouds(text) == CloudsFrom(text, 1)

WEATHER_PHENOMENA ==
    ("-" :> "slight") @@ ("+" :> "strong") @@ ("VC" :> "in the vicinity") @@
    ("MI" :> "shallow") @@ ("BC" :> "patches") @@ ("PR" :> "partial") @@
    ("DR" :> "low drifting") @@ ("BL" :> "blowing") @@ ("SH" :> "showers") @@
    ("TS" :> "thunderstorm") @@ ("FZ" :> "freezing") @@ ("DZ" :> "drizzle") @@
    ("RA" :> "rain") @@ ("SN" :> "snow") @@ ("SG" :> "snow grains") @@
    ("IC" :> "ice crystals") @@ ("PL" :> "ice pellets") @@ ("GR" :> "hail") @@
    ("GS" :> "small hail") @@ ("UP" :> "unknown precipitation") @@ ("BR" :> "mist") @@
    ("FG" :> "fog") @@ ("FU" :> "smoke") @@ ("VA" :> "volcanic ash") @@
    ("DU" :> "dust") @@ ("SA" :> "sand") @@ ("HZ" :> "haze") @@
    ("PY" :> "spray") @@ ("PO" :> "dust whirls") @@ ("SQ" :> "squall") @@
    ("FC" :> "funnel cloud") @@ ("SS" :> "sandstorm") @@ ("DS" :> "duststorm")

\* (?=\s|$) at q
TokenEnd(s, q) == q = Len(s) + 1 \/ Ch(s, q) \in Spaces

\* [A-Z]{2,6}(?=\s|$) at c: the length of the run of capitals, 0 when the
\* expression does not match there
CodeLen(s, c) ==
    With(RunLen(s, c, Uppers), LAMBDA n :
        IF n >= 2 /\ n <= 6 /\ TokenEnd(s, c + n) THEN n ELSE 0)

\* ([-+]|VC)?([A-Z]{2,6})(?=\s|$) at t: <<length of the marker, length of
\* the code>>, <<0, 0>> when it does not match.  The marker is tried first
\* and given up when the rest does not match after it.
WxToken(s, t) ==
    With(<<CodeLen(s, t), CodeLen(s, t + 1), CodeLen(s, t + 2)>>, LAMBDA n :
        IF Ch(s, t) \in {"-", "+"} THEN <<1, n[2]>>
        ELSE IF LitAt(s, t, "VC") /\ n[3] # 0 THEN <<2, n[3]>>
        ELSE <<0, n[1]>>)

\* (?:^|\s) at p: where the token starts, 0 when there is no match at p; ^
\* is the start of the text only
WxTokenStart(s, p) ==
    IF p = 1 /\ WxToken(s, 1)[2] # 0 THEN 1
    ELSE IF Ch(s, p) \in Spaces /\ WxToken(s, p + 1)[2] # 0 THEN p + 1
    ELSE 0

WxAt(s, p) == WxTokenStart(s, p) # 0

\* _get_weather_emoji
GetWeatherEmoji(code) ==
    IF Contains(code, "TS") THEN "thunder"
    ELSE IF Contains(code, "RA") THEN "rain"
    ELSE IF Contains(code, "SN") THEN "snow"
    ELSE IF Contains(code, "FG") THEN "fog"
    ELSE IF Contains(code, "BR") THEN "fog"
    ELSE IF Contains(code, "SH") THEN "shower"
    ELSE IF Contains(code, "GR") \/ Contains(code, "GS") THEN "hail"
    ELSE "cloud"

\* lines 392-399: the scan from i (0-based) takes two characters when they
\* are a key of the table and moves on by one when they are not
RECURSIVE WxParts(_, _)
WxParts(code, i) ==
    IF i >= Len(code) THEN <<>>
    ELSE With(SubSeq(code, i + 1, IF i + 2 <= Len(code) THEN i + 2 ELSE Len(code)),
              LAMBDA two_char :
                IF two_char \in DOMAIN WEATHER_PHENOMENA
                THEN <<WEATHER_PHENOMENA[two_char]>> \o WxParts(code, i + 2)
                ELSE WxParts(code, i + 1))

\* _decode_weather_code
DecodeWeatherCode(code) ==
    With(IF StartsWith(code, "-") THEN <<"light">>
         ELSE IF StartsWith(code, "+") THEN <<"heavy">>
         ELSE IF StartsWith(code, "VC") THEN <<"in the vicinity">>
         ELSE <<>>, LAMBDA marker :
    With(IF StartsWith(code, "-") \/ StartsWith(code, "+") THEN SubSeq(code, 2, Len(code))
         ELSE IF StartsWith(code, "VC") THEN SubSeq(code, 3, Len(code))
         ELSE code, LAMBDA rest :
    With(marker \o WxParts(rest, 0), LAMBDA parts :
        IF parts # <<>> THEN Some(GetWeatherEmoji(rest) \o " " \o Join(parts, " "))
        ELSE None)))

\* lines 361-364: the codes that are no weather
WxSkipped(code) ==
    \/ code \in {"CAVOK", "NSC", "SKC", "CLR", "NCD"}
    \/ \E c \in {"FEW", "SCT", "BKN", "OVC", "VV"} : StartsWith(code, c)

\* re.finditer: the two groups of the leftmost match from position p and
\* the position after it, None when there is no match
WxMatch(s, p) ==
    With({i \in p..Len(s) : WxAt(s, i)}, LAMBDA hits :
        IF hits = {} THEN None
        ELSE With(WxTokenStart(s, SetMin(hits)), LAMBDA t :
             With(WxToken(s, t), LAMBDA m :
                Some([g    |-> <<SubSeq(s, t, t + m[1] - 1),
                                 SubSeq(s, t + m[1], t + m[1] + m[2] - 1)>>,
                      stop |-> t + m[1] + m[2]]))))

\* lines 359-372: the loop body of _parse_weather for one match
WxEntry(g) ==
    With(DecodeWeatherCode(g[1] \o g[2]), LAMBDA description :
        IF WxSkipped(g[2]) \/ description = None \/ description = Some("")
        THEN <<>>
        ELSE <<[code |-> g[1] \o g[2], text |-> Val(description)]>>)

\* re.finditer from position p, and the loop of _parse_weather
RECURSIVE WeatherFrom(_, _)
WeatherFrom(s, p) ==
    With(WxMatch(s, p), LAMBDA m :
        IF m = None THEN <<>>
        ELSE WxEntry(Val(m).g) \o WeatherFrom(s, Val(m).stop))

\* _parse_weather
ParseWeather(text) == WeatherFrom(text, 1)

\* T([XN])M?(\d{2})/(\d{4})Z: where the two digits start, 0 for no match
TempDigits(s, i) ==
    With(IF Ch(s, i + 2) = "M" THEN i + 3 ELSE i + 2, LAMBDA d :
        IF /\ LitAt(s, i, "T")
           /\ Ch(s, i + 1) \in {"X", "N"}
           /\ DigitsAt(s, d, 2)
           /\ LitAt(s, d + 2, "/")
           /\ DigitsAt(s, d + 3, 4)
           /\ LitAt(s, d + 7, "Z")
        THEN d ELSE 0)

TempAt(s, i) == TempDigits(s, i) # 0

\* _parse_temperature: the sign is taken from 'M' in text
ParseTemperature(text) ==
    With(SearchFirst(text, TempAt), LAMBDA i :
        IF i = 0 THEN None
        ELSE With(IF Ch(text, i + 1) = "X" THEN "maximum" ELSE "minimum", LAMBDA temp_type :
             With(TempDigits(text, i), LAMBDA d :
             With(StrToInt(SubSeq(text, d, d + 1)), LAMBDA digits :
             With(IF Contains(text, "M") THEN 0 - digits ELSE digits, LAMBDA temp :
                Some([type  |-> temp_type,
                      value |-> temp,
                      text  |-> temp_type \o " temperature " \o SignedStr(temp) \o " C"]))))))

\* no split: the whole text taken as the main part
WholeText(t) == t

\* \s+(FM|TEMPO|BECMG|PROB)
MainSplitAt(s, i) ==
    /\ Ch(s, i) \in Spaces
    /\ \E w \in {"FM", "TEMPO", "BECMG", "PROB"} : LitAt(s, SkipWs(s, i), w)

\* line 217: re.split(...)[0], the text before the first match
MainPart(t) ==
    With(SearchFirst(t, MainSplitAt), LAMBDA i :
        IF i = 0 THEN t ELSE SubSeq(t, 1, i - 1))

\* _parse_main_forecast: the five baseline fields of self.decoded
ParseMainForecast(t) ==
    With(MainPart(t), LAMBDA main_part :
        [wind        |-> ParseWind(main_part),
         visibility  |-> ParseVisibility(main_part),
         weather     |-> ParseWeather(main_part),
         clouds      |-> ParseClouds(main_part),
         temperature |-> ParseTemperature(main_part)])

\* (FM\d{6}|TEMPO|BECMG|PROB\d{2}\s+TEMPO|PROB\d{2}) at j: the length of the
\* first alternative that matches, 0 when none does
IndicatorLen(s, j) ==
    IF LitAt(s, j, "FM") /\ DigitsAt(s, j + 2, 6) THEN 8
    ELSE IF LitAt(s, j, "TEMPO") THEN 5
    ELSE IF LitAt(s, j, "BECMG") THEN 5
    ELSE IF LitAt(s, j, "PROB") /\ DigitsAt(s, j + 4, 2)
    THEN With(SkipWs(s, j + 6), LAMBDA k :
            IF Ch(s, j + 6) \in Spaces /\ LitAt(s, k, "TEMPO") THEN k + 5 - j ELSE 6)
    ELSE 0

\* \s+(FM\d{6}|TEMPO|BECMG|PROB\d{2}\s+TEMPO|PROB\d{2})
ChangeSplitAt(s, i) ==
    Ch(s, i) \in Spaces /\ With(SkipWs(s, i), LAMBDA j : IndicatorLen(s, j) # 0)

\* s[lo:hi] of Python, which cuts at the end of the text
Slice(s, lo, hi) ==
    With(IF hi <= Len(s) THEN hi ELSE Len(s), LAMBDA e :
        IF lo < e THEN SubSeq(s, lo + 1, e) ELSE "")

\* _decode_change_indicator
DecodeChangeIndicator(indicator) ==
    IF StartsWith(indicator, "FM")
    THEN "from day " \o Slice(indicator, 2, 4) \o " " \o Slice(indicator, 4, 6) \o ":"
            \o Slice(indicator, 6, 8) \o " UTC"
    ELSE IF StartsWith(indicator, "PROB")
    THEN "probability " \o Slice(indicator, 4, 6) \o "%"
    ELSE IF indicator = "TEMPO" THEN "at times"
    ELSE IF indicator = "BECMG" THEN "gradual change"
    ELSE indicator

\* lines 479-482: re.split from position p: the indicator of the leftmost
\* match, the text up to the next match and the position after the
\* indicator, None when there is no match
ChangeMatch(s, p) ==
    With({i \in p..Len(s) : ChangeSplitAt(s, i)}, LAMBDA hits :
        IF hits = {} THEN None
        ELSE With(SkipWs(s, SetMin(hits)), LAMBDA j :
             With(j + IndicatorLen(s, j), LAMBDA e :
             With({i \in e..Len(s) : ChangeSplitAt(s, i)}, LAMBDA later :
             With(IF later = {} THEN Len(s) + 1 ELSE SetMin(later), LAMBDA stop :
                Some([g |-> <<Strip(SubSeq(s, j, e - 1)), Strip(SubSeq(s, e, stop - 1))>>,
                      e |-> e]))))))

\* lines 484-495: the change of one indicator and its text
ChangeEntry(g) ==
    [indicator      |-> g[1],
     indicator_text |-> DecodeChangeIndicator(g[1]),
     wind           |-> ParseWind(g[2]),
     visibility     |-> ParseVisibility(g[2]),
     weather        |-> ParseWeather(g[2]),
     clouds         |-> ParseClouds(g[2])]

\* lines 479-495: each pair of an indicator and its text is one change
RECURSIVE ChangesFrom(_, _)
ChangesFrom(s, p) ==
    With(ChangeMatch(s, p), LAMBDA m :
        IF m = None THEN <<>>
        ELSE <<ChangeEntry(Val(m).g)>> \o ChangesFrom(s, Val(m).e))

\* _parse_changes
ParseChanges(t) == ChangesFrom(t, 1)

\* the lines a list of records with a 'text' gives, each after an indent
RECURSIVE TextLines(_, _)
TextLines(list, indent) ==
    IF Len(list) = 0 THEN <<>>
    ELSE <<indent \o list[1].text>> \o TextLines(Tail(list), indent)

OptLine(o, indent) == IF o = None THEN <<>> ELSE <<indent \o Val(o).text>>

Rule == "----------------------------------------------"

\* lines 560-572: the lines of the changes
RECURSIVE ChangeLines(_)
ChangeLines(changes) ==
    IF Len(changes) = 0 THEN <<>>
    ELSE With(changes[1], LAMBDA change :
            <<"", "> " \o change.indicator_text \o ":">>
                \o OptLine(change.wind, "  ")
                \o OptLine(change.visibility, "  ")
                \o TextLines(change.weather, "  ")
                \o TextLines(change.clouds, "  "))
         \o ChangeLines(Tail(changes))

\* lines 520-579: the lines of the text
HumanLines(d) ==
    (IF d.station # None THEN <<"AERODROME: " \o Val(d.station)>> ELSE <<>>)
    \o (IF d.issue_time # None THEN <<"Issued: " \o Val(d.issue_time).text>> ELSE <<>>)
    \o (IF d.valid_period # None THEN <<"Valid: " \o Val(d.valid_period).text>> ELSE <<>>)
    \o <<"", Rule, "MAIN FORECAST", Rule, "">>
    \o OptLine(d.wind, "")
    \o OptLine(d.visibility, "")
    \o TextLines(d.weather, "")
    \o (IF d.clouds # <<>> THEN TextLines(d.clouds, "")
        ELSE IF d.visibility # None /\ Val(d.visibility).meters >= 10000
        THEN <<"no significant cloud">> ELSE <<>>)
    \o OptLine(d.temperature, "")
    \o (IF d.changes # <<>>
        THEN <<"", Rule, "EXPECTED CHANGES", Rule>> \o ChangeLines(d.changes)
        ELSE <<>>)

\* _generate_human_text: line 580 joins the lines
GenerateHumanText(d) == With(HumanLines(d), LAMBDA lines : Join(lines, NL))

\* self.decoded as decode sets it at lines 144-157
NewDecoded(raw) ==
    [raw |-> raw, human_readable |-> "", station |-> None, issue_time |-> None,
     valid_period |-> None, wind |-> None, visibility |-> None, weather |-> <<>>,
     clouds |-> <<>>, temperature |-> None, changes |-> <<>>, remarks |-> None]

(***************************************************************************)
(* The TAF texts and segments the calls are made with, kept as their parts  *)
(***************************************************************************)
WindDirs == {"000", "022", "023", "067", "068", "180", "320", "337", "338", "360"}

WindKnots == {"00", "01", "02", "15", "25", "99"}

\* the digits of the gust group, "" for a token without one
WindGusts == {"", "00", "01", "25", "99"}

WindArgs ==
    [kind : {"wind"}, ddd : WindDirs, ss : WindKnots, gg : WindGusts,
     unit : {"KT", "MPS"}, inside : BOOLEAN]

WindToken(a) == a.ddd \o a.ss \o (IF a.gg = "" THEN "" ELSE "G" \o a.gg) \o a.unit

\* the token alone, or inside a baseline
WindText(a) ==
    IF a.inside THEN "TAF UAAA 101100Z 1012/1112 " \o WindToken(a) \o " 9999 FEW040"
    ELSE WindToken(a)

FourDigitTokens ==
    {"0000", "0800", "0999", "1000", "2999", "3000", "4000", "4999", "5000", "9998"}

VisTokens == FourDigitTokens \cup {"CAVOK", "9999"}

VisPairTokens == {"CAVOK", "9999", "4000", "0800"}

\* the visibility tokens of a segment, in order; pre and post say whether
\* another token stands before and after them
VisArgs ==
    [kind : {"visibility"},
     vis  : {<<>>} \cup {<<t>> : t \in VisTokens}
               \cup {<<t, u>> : t \in VisPairTokens, u \in VisPairTokens},
     pre  : BOOLEAN,
     post : BOOLEAN]

VisText(a) ==
    Join((IF a.pre THEN <<"32015KT">> ELSE <<>>) \o a.vis
            \o (IF a.post THEN <<"BKN020">> ELSE <<>>), " ")

MaxLayers == 2

Covers == {"FEW", "SCT", "BKN", "OVC", "VV"}

\* type "" is a layer without a cloud type
AllLayers == [cover : Covers, hhh : {"000", "002", "040", "100", "999"}, type : {"", "CB", "TCU"}]

SampleLayers ==
    {[cover |-> "FEW", hhh |-> "040", type |-> ""],
     [cover |-> "BKN", hhh |-> "100", type |-> ""],
     [cover |-> "BKN", hhh |-> "040", type |-> "CB"],
     [cover |-> "OVC", hhh |-> "002", type |-> "TCU"],
     [cover |-> "VV",  hhh |-> "002", type |-> ""]}

CloudArgs ==
    [kind   : {"clouds"},
     layers : {<<l>> : l \in AllLayers}
                 \cup UNION {[1..n -> SampleLayers] : n \in 0..MaxLayers},
     among  : BOOLEAN]

CloudToken(l) == l.cover \o l.hhh \o l.type

RECURSIVE CloudTokens(_)
CloudTokens(layers) ==
    IF Len(layers) = 0 THEN <<>>
    ELSE <<CloudToken(layers[1])>> \o CloudTokens(Tail(layers))

\* the layers alone, or among other tokens of a segment
CloudText(a) ==
    Join((IF a.among THEN <<"32015KT", "4000">> ELSE <<>>) \o CloudTokens(a.layers)
            \o (IF a.among THEN <<"TX15/1012Z">> ELSE <<>>), " ")

\* the header tokens; "" is a message without any, " " one that starts with
\* blanks
TafHeads ==
    {"TAF UAAA 101100Z 1012/1112", "TAF AMD UAAA 101100Z 1012/1112", "101100Z 1012/1112",
     "", " "}

TafWinds == {"32015G25KT", "VRB03KT", "00000KT", ""}

TafVis == {"9999", "4000", "CAVOK", ""}

TafWx == {"", "-RA"}

TafClouds == {<<>>, <<"FEW040", "BKN100">>}

TafChanges ==
    {<<>>,
     <<[ind |-> "TEMPO", body |-> "1014/1018 4000 TSRA BKN020CB"]>>,
     <<[ind |-> "FM101200", body |-> "18005MPS 9999 NSC"],
       [ind |-> "BECMG", body |-> "1102/1104 0800 FG"]>>,
     <<[ind |-> "PROB30 TEMPO", body |-> "1020/1024 VRB05G15MPS 4000"]>>,
     <<[ind |-> "FM110600", body |-> "VRB03KT CAVOK"],
       [ind |-> "PROB40", body |-> "1100/1102 3000 +SHRA OVC002TCU"],
       [ind |-> "FM101200", body |-> "00000MPS 0800 FG VV002"]>>,
     <<[ind |-> "BECMG", body |-> "3000 BR"]>>}

\* headers of other stations of collect_taf.AIRPORTS, one of a corrected
\* message
TafStationHeads ==
    {"TAF UTSS 101100Z 1012/1112", "TAF COR UWSS 101100Z 1012/1112",
     "TAF AMD UTTT 101100Z 1012/1112"}

\* change groups whose FM has the four digits of the hour and minute only
TafShortFm ==
    {<<[ind |-> "FM1200", body |-> "18005MPS 4000 BR"]>>,
     <<[ind |-> "FM1200", body |-> "18005MPS 4000 BR"],
       [ind |-> "BECMG", body |-> "1102/1104 9999 NSC"]>>}

TafArgs ==
    [kind : {"taf"}, head : TafHeads, wind : TafWinds, vis : TafVis, wx : TafWx,
     clouds : TafClouds, changes : TafChanges]
    \cup [kind : {"taf"}, head : {"TAF UAAA 101100Z 1012/1112"}, wind : {"32015G25KT"},
          vis : {"9999"}, wx : TafWx, clouds : {<<>>}, changes : TafShortFm]
    \cup [kind : {"taf"}, head : TafStationHeads, wind : {"32015G25KT"},
          vis : {"CAVOK", "4000"}, wx : TafWx \cup {"-SHRA BR"}, clouds : TafClouds,
          changes : {<<>>, <<[ind |-> "TEMPO", body |-> "1014/1018 4000 TSRA BKN020CB"]>>}]

RECURSIVE ChangeTexts(_)
ChangeTexts(changes) ==
    IF Len(changes) = 0 THEN <<>>
    ELSE <<JoinSp(changes[1].ind, changes[1].body)>> \o ChangeTexts(Tail(changes))

TafText(a) ==
    JoinSp(JoinSp(JoinSp(JoinSp(JoinSp(a.head, a.wind), a.vis), a.wx),
                  Join(a.clouds, " ")),
           Join(ChangeTexts(a.changes), " "))

\* the codes _decode_weather_code is called with: a marker or none, then
\* up to MaxPieces pieces
MaxPieces == 3

WxMarkers == {"", "-", "+", "VC"}

WxPieces == {"RA", "SN", "TS", "X", "ZZ"}

WxCodeArgs ==
    [kind : {"weather code"}, marker : WxMarkers,
     pieces : UNION {[1..n -> WxPieces] : n \in 0..MaxPieces}]

WxCodeText(a) == a.marker \o Join(a.pieces, "")

\* the messages of the calls made on one decoder
FileTafs ==
    {"TAF UAAA 101100Z 1012/1112 32015G25KT 9999 FEW040 BKN100 TEMPO 1014/1018 4000 TSRA BKN020CB",
     "TAF AMD UACC 110500Z 1106/1206 VRB03KT CAVOK TX15/1112Z",
     " 00000MPS 0800 FG VV002 FM120000 18005MPS 4000 -SHRA OVC002TCU\n"}

\* the callers of decode on the one decoder
Threads == {"t1", "t2"}

\* a caller that is not in decode: no argument, no local taf, no result
IdleCall == [pc |-> "idle", taf_text |-> "", taf |-> "", result |-> 0]

\* the number of items of a file
MaxItems == 3

(***************************************************************************)
(* src/notam_decoder.py: _decode_description and the rest of decode        *)
(*                                                                         *)
(* The translations are Russian in the source.  Here a Russian word is     *)
(* written as _ and its English gloss: like a Cyrillic letter, _ is a word *)
(* character of \b that no abbreviation contains.                          *)
(***************************************************************************)
\* ABBREVIATIONS, in the order of the dict, which is the order of the loop
ABBREVIATIONS ==
    <<<<"RWY", "_runway">>, <<"TWY", "_taxiway">>, <<"APRON", "_apron">>,
      <<"TERMINAL", "_terminal">>, <<"PARKING", "_parking">>, <<"CLSD", "_closed">>,
      <<"CLOSED", "_closed">>, <<"OPEN", "_open">>, <<"AVBL", "_available">>,
      <<"AVAILABLE", "_available">>, <<"U/S", "_not _working">>,
      <<"UNSERVICEABLE", "_not _working">>, <<"OPS", "_operations">>,
      <<"OPR", "_working">>, <<"OPERATIONAL", "_in _operation">>,
      <<"MAINT", "_maintenance">>, <<"MAINTENANCE", "_maintenance">>,
      <<"WIP", "_construction _work">>, <<"WORK IN PROGRESS", "_construction _work">>,
      <<"CONST", "_construction">>, <<"CONSTRUCTION", "_construction">>,
      <<"REPAIR", "_repair">>, <<"INSP", "_inspection">>,
      <<"INSPECTION", "_inspection">>, <<"ILS", "_instrument _landing _system">>,
      <<"VOR", "_omnidirectional _beacon">>,
      <<"DME", "_distance _measuring _equipment">>,
      <<"NDB", "_nondirectional _beacon">>, <<"PAPI", "_glide _path _indicator">>,
      <<"VASIS", "_visual _approach _system">>, <<"LGT", "_lights">>,
      <<"LIGHTS", "_lights">>, <<"ALS", "_approach _lights">>,
      <<"EDGE", "_edge _lights">>, <<"CL", "_centre _lights">>,
      <<"CENTERLINE", "_centre _lights">>, <<"SFC", "_surface">>, <<"GND", "_ground">>,
      <<"AGL", "_above _ground _level">>, <<"AMSL", "_above _sea _level">>,
      <<"FT", "_feet">>, <<"FL", "_level">>, <<"DAILY", "_daily">>,
      <<"MON", "_monday">>, <<"TUE", "_tuesday">>, <<"WED", "_wednesday">>,
      <<"THU", "_thursday">>, <<"FRI", "_friday">>, <<"SAT", "_saturday">>,
      <<"SUN", "_sunday">>, <<"UTC", "_universal _time">>, <<"PERM", "_permanently">>,
      <<"TEMPO", "_temporarily">>, <<"INFO", "_information">>,
      <<"ADZ", "_aerodrome _zone">>, <<"CTR", "_control _zone">>,
      <<"FIR", "_flight _information _region">>, <<"TMA", "_control _area">>,
      <<"FREQ", "_frequency">>, <<"ATIS", "_automatic _information">>>>

LowerLetters == "abcdefghijklmnopqrstuvwxyz"

UpperLetters == "ABCDEFGHIJKLMNOPQRSTUVWXYZ"

Lowers == {SubSeq(LowerLetters, k, k) : k \in 1..Len(LowerLetters)}

\* the characters \w matches
WordChars == Digits \cup Uppers \cup Lowers \cup {"_"}

\* re.IGNORECASE: a character as the pattern, which is in capitals, sees it
UpperOf(c) ==
    With({k \in 1..Len(LowerLetters) : SubSeq(LowerLetters, k, k) = c}, LAMBDA ks :
        IF ks = {} THEN c ELSE SubSeq(UpperLetters, SetMin(ks), SetMin(ks)))

\* re.escape(abbr) at i under IGNORECASE
LitAtIgnoreCase(s, i, abbr) ==
    /\ i >= 1 /\ i + Len(abbr) - 1 <= Len(s)
    /\ \A j \in 1..Len(abbr) : UpperOf(Ch(s, i + j - 1)) = Ch(abbr, j)

\* \b before the character at i: a word character on one side only
WordBoundary(s, i) == (Ch(s, i - 1) \in WordChars) # (Ch(s, i) \in WordChars)

\* the abbreviation at i with no \b on either side
AbbrAnywhereAt(s, i, abbr) == LitAtIgnoreCase(s, i, abbr)

\* line 305: \b + re.escape(abbr) + \b at i
AbbrAt(s, i, abbr) ==
    /\ LitAtIgnoreCase(s, i, abbr)
    /\ WordBoundary(s, i)
    /\ WordBoundary(s, i + Len(abbr))

\* line 306: re.sub from position p, the matches left to right, none
\* overlapping
RECURSIVE ReSubFrom(_, _, _, _)
ReSubFrom(s, abbr, translation, p) ==
    With({i \in p..Len(s) : AbbrAt(s, i, abbr)}, LAMBDA hits :
        IF hits = {} THEN SubSeq(s, p, Len(s))
        ELSE With(SetMin(hits), LAMBDA i :
                SubSeq(s, p, i - 1) \o translation
                    \o ReSubFrom(s, abbr, translation, i + Len(abbr))))

ReSub(s, abbr, translation) == ReSubFrom(s, abbr, translation, 1)

\* lines 303-306: the passes of the loop for the abbreviations lo..hi, one
\* after the other, each on the text the one before left
RECURSIVE DecodeDescriptionFrom(_, _, _)
DecodeDescriptionFrom(text, lo, hi) ==
    IF lo = hi THEN ReSub(text, ABBREVIATIONS[lo][1], ABBREVIATIONS[lo][2])
    ELSE With(DecodeDescriptionFrom(text, lo, (lo + hi) \div 2), LAMBDA d :
            DecodeDescriptionFrom(d, (lo + hi) \div 2 + 1, hi))

\* _decode_description
DecodeDescription(description) ==
    DecodeDescriptionFrom(description, 1, Len(ABBREVIATIONS))

\* _decode_type: types.get(notam_type, notam_type)
DecodeType(notam_type) ==
    IF notam_type = "N" THEN "new"
    ELSE IF notam_type = "R" THEN "replacement"
    ELSE IF notam_type = "C" THEN "cancellation"
    ELSE notam_type

\* collect_notam.AIRPORTS: the 'name' of each aerodrome, its Russian part
\* as a gloss
AIRPORTS ==
    ("UAAA" :> "_Almaty (Almaty)") @@ ("UAAT" :> "_Taldykorgan (Taldykorgan)") @@
    ("UACC" :> "_Astana (Nursultan Nazarbayev)") @@ ("UATT" :> "_Aktobe (Aktobe)") @@
    ("UATG" :> "_Atyrau (Atyrau)") @@ ("UARR" :> "_Uralsk (Oral/Uralsk)") @@
    ("UAKK" :> "_Karaganda (Sary-Arka)") @@ ("UAAH" :> "_Balkhash (Balkhash)") @@
    ("UAUU" :> "_Kostanay (Kostanay)") @@ ("UAOO" :> "_Kyzylorda (Kyzylorda)") @@
    ("UAOL" :> "_Baikonur (Baikonur)") @@ ("UATE" :> "_Aktau (Aktau)") @@
    ("UASP" :> "_Pavlodar (Pavlodar)") @@ ("UACP" :> "_Petropavlovsk (Petropavlovsk)") @@
    ("UAII" :> "_Shymkent (Shymkent)") @@ ("UATA" :> "_Turkestan (Turkistan)") @@
    ("UASK" :> "_Ust-Kamenogorsk (Oskemen)") @@ ("UASB" :> "_Semey (Semey)")

\* _get_location_name: the name of a known aerodrome, else the location
\* as it is
GetLocationName(location) ==
    IF location # None /\ Val(location) \in DOMAIN AIRPORTS
    THEN Some(AIRPORTS[Val(location)])
    ELSE location

\* the timestamps _parse_notam_datetime gives: YYYY-MM-DDTHH:MM:00Z
IsIsoStamp(s) ==
    /\ Len(s) = 20
    /\ DigitsAt(s, 1, 4) /\ DigitsAt(s, 6, 2) /\ DigitsAt(s, 9, 2)
    /\ DigitsAt(s, 12, 2) /\ DigitsAt(s, 15, 2)
    /\ Ch(s, 5) = "-" /\ Ch(s, 8) = "-" /\ Ch(s, 11) = "T"
    /\ Ch(s, 14) = ":" /\ SubSeq(s, 17, 20) = ":00Z"

\* _format_datetime: 'N/A' for None and '', a word for EST,
\* strftime('%d.%m.%Y %H:%M UTC') of a timestamp, any other string as it is
FormatDatetime(dt_str) ==
    IF dt_str = None \/ dt_str = Some("") THEN "N/A"
    ELSE IF Val(dt_str) = "EST" THEN "to be confirmed"
    ELSE With(Val(dt_str), LAMBDA s :
            IF IsIsoStamp(s)
            THEN SubSeq(s, 9, 10) \o "." \o SubSeq(s, 6, 7) \o "." \o SubSeq(s, 1, 4)
                    \o " " \o SubSeq(s, 12, 16) \o " UTC"
            ELSE s)

\* an f-string's text of a value that may be None
FStr(o) == IF o = None THEN "None" ELSE Val(o)

Truthy(o) == o # None /\ Val(o) # ""

PermanentLine == "valid: PERMANENTLY"

\* lines 346-352: the line of the validity
ValidityLine(d) ==
    IF d.is_permanent THEN PermanentLine
    ELSE With(FormatDatetime(d.valid_from), LAMBDA valid_from :
         With(FormatDatetime(d.valid_to), LAMBDA valid_to :
            "valid: from " \o valid_from \o " until " \o valid_to))

SeverityText(severity) ==
    IF severity = Some("critical") THEN "CRITICAL - needs immediate attention"
    ELSE IF severity = Some("warning") THEN "WARNING - needs attention"
    ELSE IF severity = Some("info") THEN "INFORMATION"
    ELSE ""

\* _generate_human_text: the lines of the text
NotamHumanLines(d) ==
    <<(IF Truthy(d.severity_emoji) THEN Val(d.severity_emoji) ELSE "clipboard")
        \o " NOTAM " \o d.id \o " (" \o d.type_text \o ")",
      "">>
    \o (IF Truthy(d.location_name)
        THEN <<"aerodrome: " \o FStr(d.location) \o " - " \o Val(d.location_name)>>
        ELSE <<"location: " \o FStr(d.location)>>)
    \o (IF Truthy(d.q_decoded) THEN <<"type: " \o Val(d.q_decoded)>> ELSE <<>>)
    \o <<ValidityLine(d)>>
    \o (IF Truthy(d.schedule) THEN <<"schedule: " \o Val(d.schedule)>> ELSE <<>>)
    \o (IF Truthy(d.lower_limit) \/ Truthy(d.upper_limit)
        THEN <<"levels: " \o (IF Truthy(d.lower_limit) THEN Val(d.lower_limit) ELSE "N/A")
                 \o " - " \o (IF Truthy(d.upper_limit) THEN Val(d.upper_limit) ELSE "N/A")>>
        ELSE <<>>)
    \o <<"", Rule, "DESCRIPTION:", Rule, "">>
    \o (IF Truthy(d.description_decoded) THEN <<Val(d.description_decoded)>>
        ELSE IF Truthy(d.description_raw) THEN <<Val(d.description_raw)>>
        ELSE <<>>)
    \o <<"", Rule, SeverityText(d.severity)>>

GenerateNotamHumanText(d) == With(NotamHumanLines(d), LAMBDA lines : Join(lines, NL))

\* decode, lines 198-231: the fields of DecodeQFields and those of the
\* description, schedule and limits; "if decoded['description_raw']" is
\* false for None and for ''
DecodeNotamFields(notam_data) ==
    With(notam_data.description_raw, LAMBDA description_raw :
        DecodeQFields(notam_data) @@
        [schedule            |-> notam_data.schedule,
         description_raw     |-> description_raw,
         description_decoded |-> IF description_raw # None /\ Val(description_raw) # ""
                                 THEN Some(DecodeDescription(Val(description_raw)))
                                 ELSE None,
         lower_limit         |-> notam_data.lower_limit,
         upper_limit         |-> notam_data.upper_limit])

\* NOTAMDecoder.decode: the fields, the name of the location and the text
DecodeNotam(notam_data) ==
    With(DecodeNotamFields(notam_data)
            @@ [type_text     |-> DecodeType(notam_data.type),
                location_name |-> GetLocationName(notam_data.location)], LAMBDA d :
        d @@ [human_readable |-> GenerateNotamHumanText(d)])

\* a decode that writes the decoded description over the raw one of the
\* dict it was given
NotamDataDecodedInPlace(notam_data) ==
    [notam_data EXCEPT !.description_raw =
        IF @ # None /\ Val(@) # "" THEN Some(DecodeDescription(Val(@))) ELSE @]

\* notam_data after decode: the method reads it with get (lines 199-216)
\* and never assigns to it
NotamDataAfterDecode(notam_data) == notam_data

\* the words of the descriptions handed to decode
MaxWords == 2

DescriptionWords ==
    {"RWY", "CLSD", "DUE", "MAINT", "TWYS", "FL100", "Twy", "U/S", "FL",
     "WORK IN PROGRESS", "MON-FRI", "AIRWAY"}

DescriptionSample == <<"RWY", "CLSD", "DUE", "MAINT">>

\* no description at all (None), or one of some words
DescriptionArgs ==
    [kind : {"description"},
     words : {None} \cup {Some(w) : w \in {DescriptionSample}
                 \cup UNION {[1..n -> DescriptionWords] : n \in 0..MaxWords}}]

DescriptionText(a) == IF a.words = None THEN None ELSE Some(Join(Val(a.words), " "))

\* the blocks whose record is handed on to NOTAMDecoder.decode: with and
\* without a B) field, the C) field a timestamp, PERM, EST, unreadable or
\* not there
ValidityArgs ==
    {[StdNotam EXCEPT !.b = b, !.c = c] :
        b \in {StdB, ""},
        c \in {StdC, "C) PERM", "C)PERM", "C) EST", "C) 2413011230", "C) 240305180012",
               "C) 2403051800 EST", ""}}

\* the headers _parse_header is called with: the DDHHmmZ token and the
\* DDHH/DDHH token, each at and beyond the ends of the calendar ranges
HeaderDays == {"00", "01", "10", "31", "32", "39", "40"}

HeaderHours == {"00", "11", "23", "24", "25", "29", "30"}

HeaderMinutes == {"00", "59", "60"}

HeaderArgs ==
    {[kind |-> "header", issue |-> d \o h \o m \o "Z", valid |-> "1012/1112"] :
        d \in HeaderDays, h \in HeaderHours, m \in HeaderMinutes}
    \cup {[kind |-> "header", issue |-> "101100Z", valid |-> d \o h \o "/1112"] :
            d \in HeaderDays, h \in HeaderHours}
    \cup {[kind |-> "header", issue |-> "101100Z", valid |-> "1012/" \o d \o h] :
            d \in HeaderDays, h \in HeaderHours}
    \cup {[kind |-> "header", issue |-> i, valid |-> v] :
            i \in {"", "101100Z"}, v \in {"", "1012/1112"}}

HeaderText(a) == JoinSp(JoinSp("TAF UAAA", a.issue), JoinSp(a.valid, "32015G25KT 9999"))

\* the segments _parse_temperature is called with: a TX or TN token, with
\* or without the M of a negative value, alone or after other tokens of a
\* baseline, and a segment without any
TempContexts ==
    {"", "TAF UAAA 101100Z 1012/1112 18005KT 9999", "TAF UAAA 101100Z 1012/1112 18005MPS 9999",
     "TAF AMD UAAA 101100Z 1012/1112 18005KT 9999"}

TempArgs ==
    [kind : {"temperature"}, pre : TempContexts, extreme : {"X", "N"}, minus : BOOLEAN,
     dd : {"00", "03", "15"}, post : {"", "TNM02/1103Z"}]
    \cup [kind : {"temperature"}, pre : TempContexts, extreme : {""}, minus : {FALSE},
          dd : {""}, post : {""}]

TempToken(a) ==
    IF a.extreme = "" THEN ""
    ELSE "T" \o a.extreme \o (IF a.minus THEN "M" ELSE "") \o a.dd \o "/1012Z"

TempText(a) == JoinSp(JoinSp(a.pre, TempToken(a)), a.post)

(***************************************************************************)
(* collect_notam.py: NOTAMCollector.fetch_all_notams                       *)
(***************************************************************************)
\* the NOTAMs a parse function returns at most
MaxNotams == 3

\* lines 85-88: the sources, in the order of the list
Sources == <<"notam.ans.kz", "ans.kz/ru/ais/notam">>

\* lines 76-82: the dict results as it is made (the time of collection and
\* the FIR, which nothing changes, left out)
NewNotamResults == [source |-> None, total_notams |-> 0, notams |-> <<>>]

\* the dicts _parse_raw_notam can give, by their id
ParsedNotams == {"A0123/24", "A0456/24", "C0789/24"}

RECURSIVE ListsUpTo(_, _)
ListsUpTo(S, n) ==
    IF n = 0 THEN {<<>>}
    ELSE ListsUpTo(S, n - 1)
            \cup {Append(l, x) : l \in {m \in ListsUpTo(S, n - 1) : Len(m) = n - 1}, x \in S}

\* what a call of parse_func() at line 93 can do: return a list, empty or
\* not, or raise
ParseOutcomes == {Raised} \cup ListsUpTo(ParsedNotams, MaxNotams)

\* line 94 with every list taken for one that has NOTAMs
NonEmptyAlways(notams) == TRUE

\* line 94: if notams
NonEmpty(notams) == notams # <<>>

(***************************************************************************)
(* collect_taf.py: collect_all_taf                                         *)
(***************************************************************************)
\* the codes a list of countries has at most
MaxCountries == 2

\* AIRPORTS, two of its countries with all their airports
TafAirports ==
    [KG |-> <<"UAFM", "UCFM", "UCFI">>,
     TM |-> <<"UTAA", "UTAK", "UTAV">>]

\* the codes of a list: two of AIRPORTS and one that is not
CountryCodes == {"KG", "TM", "XX"}

\* the argument countries: None or a list
CountryArgs == {None} \cup {Some(l) : l \in ListsUpTo(CountryCodes, MaxCountries)}

\* lines 310-311: None is all the keys of AIRPORTS
CountriesOf(a) == IF a = None THEN <<"KG", "TM">> ELSE Val(a)

\* lines 314-321: the dict results as it is made
NewTafResults ==
    [total_airports |-> 0, successful |-> 0, failed |-> 0,
     countries |-> <<>>, taf_data |-> <<>>]

\* lines 347-352: the dict country_stats as it is made
NewCountryStats(n) == [total |-> n, successful |-> 0, failed |-> 0, airports |-> <<>>]

\* TAFCollector.collect: None, or the dict of the first source that gave a
\* raw text
CollectOutcomes ==
    {None} \cup {Some([source |-> "aviationweather.gov",
                       raw |-> "TAF UAFM 101100Z 1012/1112 32015G25KT 9999 NSC"])}

\* results['countries'][country_code] = country_stats
SetCountry(d, code, stats) ==
    IF \E k \in 1..Len(d) : d[k].code = code
    THEN [k \in 1..Len(d) |-> IF d[k].code = code THEN [code |-> code, stats |-> stats]
                                                    ELSE d[k]]
    ELSE Append(d, [code |-> code, stats |-> stats])

(***************************************************************************)
(* The state machine: a caller that makes one call at a time               *)
(***************************************************************************)
Init ==
    /\ pc = "idle"
    /\ op = ""
    /\ arg = None
    /\ ret = None
    /\ raw_taf = ""
    /\ decoded = EmptyDict
    /\ taf = ""
    /\ heap = <<>>
    /\ self_decoded = 0
    /\ calls = [t \in Threads |-> IdleCall]
    /\ decoded_list = <<>>
    /\ fetch_pc = "idle"
    /\ source_index = 0
    /\ notam_results = NewNotamResults
    /\ queried = <<>>
    /\ collect_pc = "idle"
    /\ countries = <<>>
    /\ country_index = 0
    /\ airport_index = 0
    /\ taf_results = NewTafResults
    /\ country_stats = NewCountryStats(0)

\* NOTAMCollector._parse_raw_notam(text), with the clock's year
CallParseRawNotam ==
    /\ pc = "idle"
    /\ \E a \in NotamArgs : \E text \in {NotamText(a)} :
          /\ arg' = a
          /\ ret' = ParseRawNotam(text, a.now)
    /\ op' = "_parse_raw_notam"
    /\ pc' = "done"
    /\ UNCHANGED <<raw_taf, decoded, taf, instance, collectors>>

\* NOTAMDecoder.decode(notam_data) of a record with the given Q-code, or
\* with none
CallDecodeNotam ==
    /\ pc = "idle"
    /\ \E q \in {Some(c) : c \in QCodeInputs} \cup {None, Some("")} :
       \E notam_data \in {[StdNotamRecord EXCEPT !.q_code = q]} :
          /\ arg' = notam_data
          /\ ret' = DecodeNotam(notam_data)
    /\ op' = "decode_notam"
    /\ pc' = "done"
    /\ UNCHANGED <<raw_taf, decoded, taf, instance, collectors>>

\* TAFDecoder._parse_wind(text)
CallParseWind ==
    /\ pc = "idle"
    /\ \E a \in WindArgs : \E text \in {WindText(a)} :
          /\ arg' = a
          /\ ret' = ParseWind(text)
    /\ op' = "_parse_wind"
    /\ pc' = "done"
    /\ UNCHANGED <<raw_taf, decoded, taf, instance, collectors>>

\* TAFDecoder._parse_visibility(text)
CallParseVisibility ==
    /\ pc = "idle"
    /\ \E a \in VisArgs : \E text \in {VisText(a)} :
          /\ arg' = a
          /\ ret' = ParseVisibility(text)
    /\ op' = "_parse_visibility"
    /\ pc' = "done"
    /\ UNCHANGED <<raw_taf, decoded, taf, instance, collectors>>

\* TAFDecoder._parse_clouds(text)
CallParseClouds ==
    /\ pc = "idle"
    /\ \E a \in CloudArgs : \E text \in {CloudText(a)} :
          /\ arg' = a
          /\ ret' = ParseClouds(text)
    /\ op' = "_parse_clouds"
    /\ pc' = "done"
    /\ UNCHANGED <<raw_taf, decoded, taf, instance, collectors>>

\* TAFDecoder.decode(taf_text), lines 143-161: the stripped text is kept,
\* the result starts empty, the blanks are normalised
DecodeStart ==
    /\ pc = "idle"
    /\ \E a \in TafArgs : \E taf_text \in {TafText(a)} :
          /\ arg' = a
          /\ raw_taf' = Strip(taf_text)
    /\ decoded' = NewDecoded(raw_taf')
    /\ taf' = Normalize(raw_taf')
    /\ op' = "decode"
    /\ pc' = "_parse_header"
    /\ ret' = None
    /\ UNCHANGED <<instance, collectors>>

\* line 164
DecodeHeader ==
    /\ pc = "_parse_header"
    /\ \E h \in {ParseHeader(taf)} :
          decoded' = [decoded EXCEPT !.station = h.station,
                                     !.issue_time = h.issue_time,
                                     !.valid_period = h.valid_period]
    /\ pc' = "_parse_main_forecast"
    /\ UNCHANGED <<op, arg, ret, raw_taf, taf, instance, collectors>>

\* line 165
DecodeMainForecast ==
    /\ pc = "_parse_main_forecast"
    /\ \E m \in {ParseMainForecast(taf)} :
          decoded' = [decoded EXCEPT !.wind = m.wind,
                                     !.visibility = m.visibility,
                                     !.weather = m.weather,
                                     !.clouds = m.clouds,
                                     !.temperature = m.temperature]
    /\ pc' = "_parse_changes"
    /\ UNCHANGED <<op, arg, ret, raw_taf, taf, instance, collectors>>

\* line 166
DecodeChanges ==
    /\ pc = "_parse_changes"
    /\ decoded' = [decoded EXCEPT !.changes = ParseChanges(taf)]
    /\ pc' = "_generate_human_text"
    /\ UNCHANGED <<op, arg, ret, raw_taf, taf, instance, collectors>>

\* lines 169-174: the text is generated and self.decoded is returned
DecodeHumanText ==
    /\ pc = "_generate_human_text"
    /\ decoded' = [decoded EXCEPT !.human_readable = GenerateHumanText(decoded)]
    /\ ret' = decoded'
    /\ pc' = "done"
    /\ UNCHANGED <<op, arg, raw_taf, taf, instance, collectors>>

\* TAFDecoder._decode_weather_code(code)
CallDecodeWeatherCode ==
    /\ pc = "idle"
    /\ \E a \in WxCodeArgs : \E code \in {WxCodeText(a)} :
          /\ arg' = a
          /\ ret' = DecodeWeatherCode(code)
    /\ op' = "_decode_weather_code"
    /\ pc' = "done"
    /\ UNCHANGED <<raw_taf, decoded, taf, instance, collectors>>

\* NOTAMDecoder.decode(notam_data) of a record with the given description:
\* what it returns, and notam_data as it is after the call
CallDecodeNotamDescription ==
    /\ pc = "idle"
    /\ \E a \in DescriptionArgs :
       \E notam_data \in {[StdNotamRecord EXCEPT !.description_raw = DescriptionText(a)]} :
          /\ arg' = [kind |-> a.kind, words |-> a.words, notam_data |-> notam_data]
          /\ ret' = [decoded    |-> DecodeNotam(notam_data),
                     notam_data |-> NotamDataAfterDecode(notam_data)]
    /\ op' = "decode_description"
    /\ pc' = "done"
    /\ UNCHANGED <<raw_taf, decoded, taf, instance, collectors>>

\* decode_notam_file: NOTAMDecoder.decode of a record that _parse_raw_notam
\* extracted
CallDecodeParsedNotam ==
    /\ pc = "idle"
    /\ \E a \in ValidityArgs :
       \E notam_data \in {Val(ParseRawNotam(NotamText(a), a.now))} :
          /\ arg' = a
          /\ ret' = [notam_data |-> notam_data, decoded |-> DecodeNotam(notam_data)]
    /\ op' = "decode_parsed_notam"
    /\ pc' = "done"
    /\ UNCHANGED <<raw_taf, decoded, taf, instance, collectors>>

\* TAFDecoder._parse_header(taf)
CallParseHeader ==
    /\ pc = "idle"
    /\ \E a \in HeaderArgs : \E t \in {HeaderText(a)} :
          /\ arg' = a
          /\ ret' = ParseHeader(t)
    /\ op' = "_parse_header"
    /\ pc' = "done"
    /\ UNCHANGED <<raw_taf, decoded, taf, instance, collectors>>

\* TAFDecoder._parse_temperature(text)
CallParseTemperature ==
    /\ pc = "idle"
    /\ \E a \in TempArgs : \E text \in {TempText(a)} :
          /\ arg' = a
          /\ ret' = ParseTemperature(text)
    /\ op' = "_parse_temperature"
    /\ pc' = "done"
    /\ UNCHANGED <<raw_taf, decoded, taf, instance, collectors>>

\* the caller takes the result; the next call starts afresh, decode on a
\* new TAFDecoder as decode_taf_text makes one (lines 589-590)
Return ==
    /\ pc = "done"
    /\ pc' = "idle"
    /\ op' = ""
    /\ arg' = None
    /\ ret' = None
    /\ raw_taf' = ""
    /\ decoded' = EmptyDict
    /\ taf' = ""
    /\ UNCHANGED <<instance, collectors>>

Next ==
    \/ CallParseRawNotam
    \/ CallDecodeNotam
    \/ CallParseWind
    \/ CallParseVisibility
    \/ CallParseClouds
    \/ DecodeStart
    \/ DecodeHeader
    \/ DecodeMainForecast
    \/ DecodeChanges
    \/ DecodeHumanText
    \/ CallDecodeWeatherCode
    \/ CallDecodeNotamDescription
    \/ CallDecodeParsedNotam
    \/ CallParseHeader
    \/ CallParseTemperature
    \/ Return

Spec == Init /\ [][Next]_vars

(***************************************************************************)
(* One TAFDecoder used for several calls.  self.raw_taf and self.decoded   *)
(* belong to the decoder, taf_text and taf to the call; a dict is an       *)
(* object of the heap, and self.decoded and a returned value refer to one. *)
(* A step is one statement of decode; the statements of the methods decode *)
(* calls are taken together.                                               *)
(***************************************************************************)
single == <<pc, op, arg, ret, decoded, taf>>

\* lines 144-157 with an object overwritten in place of a new one
Overwrite(h, d) == IF h = <<>> THEN <<d>> ELSE [h EXCEPT ![Len(h)] = d]

\* lines 144-157: the dict display makes a new object
Allocate(h, d) == Append(h, d)

\* a call moves on to the statement at
Goto(t, label) == calls' = [calls EXCEPT ![t].pc = label]

\* line 143: self.raw_taf = taf_text.strip()
DecodeLine143(t, taf_text) ==
    /\ calls[t].pc = "idle"
    /\ raw_taf' = Strip(taf_text)
    /\ calls' = [calls EXCEPT ![t] = [pc |-> "144", taf_text |-> taf_text, taf |-> "",
                                      result |-> 0]]
    /\ UNCHANGED <<heap, self_decoded, decoded_list, single, collectors>>

\* lines 144-157: self.decoded = {'raw': self.raw_taf, ...}
DecodeLine144(t) ==
    /\ calls[t].pc = "144"
    /\ heap' = Allocate(heap, NewDecoded(raw_taf))
    /\ self_decoded' = Len(heap')
    /\ Goto(t, "161")
    /\ UNCHANGED <<raw_taf, decoded_list, single, collectors>>

\* line 161: taf = ' '.join(self.raw_taf.split())
DecodeLine161(t) ==
    /\ calls[t].pc = "161"
    /\ calls' = [calls EXCEPT ![t].pc = "164", ![t].taf = Normalize(raw_taf)]
    /\ UNCHANGED <<raw_taf, heap, self_decoded, decoded_list, single, collectors>>

\* line 164: self._parse_header(taf) writes to the dict of self.decoded
DecodeLine164(t) ==
    /\ calls[t].pc = "164"
    /\ \E h \in {ParseHeader(calls[t].taf)} :
          heap' = [heap EXCEPT ![self_decoded].station = h.station,
                               ![self_decoded].issue_time = h.issue_time,
                               ![self_decoded].valid_period = h.valid_period]
    /\ Goto(t, "165")
    /\ UNCHANGED <<raw_taf, self_decoded, decoded_list, single, collectors>>

\* line 165: self._parse_main_forecast(taf)
DecodeLine165(t) ==
    /\ calls[t].pc = "165"
    /\ \E m \in {ParseMainForecast(calls[t].taf)} :
          heap' = [heap EXCEPT ![self_decoded].wind = m.wind,
                               ![self_decoded].visibility = m.visibility,
                               ![self_decoded].weather = m.weather,
                               ![self_decoded].clouds = m.clouds,
                               ![self_decoded].temperature = m.temperature]
    /\ Goto(t, "166")
    /\ UNCHANGED <<raw_taf, self_decoded, decoded_list, single, collectors>>

\* line 166: self._parse_changes(taf)
DecodeLine166(t) ==
    /\ calls[t].pc = "166"
    /\ heap' = [heap EXCEPT ![self_decoded].changes = ParseChanges(calls[t].taf)]
    /\ Goto(t, "169")
    /\ UNCHANGED <<raw_taf, self_decoded, decoded_list, single, collectors>>

\* line 169: self._generate_human_text() reads and writes self.decoded
DecodeLine169(t) ==
    /\ calls[t].pc = "169"
    /\ heap' = [heap EXCEPT ![self_decoded].human_readable =
                                GenerateHumanText(heap[self_decoded])]
    /\ Goto(t, "174")
    /\ UNCHANGED <<raw_taf, self_decoded, decoded_list, single, collectors>>

\* line 174: return self.decoded
DecodeLine174(t) ==
    /\ calls[t].pc = "174"
    /\ calls' = [calls EXCEPT ![t].pc = "returned", ![t].result = self_decoded]
    /\ UNCHANGED <<raw_taf, heap, self_decoded, decoded_list, single, collectors>>

\* decode on a decoder of its own, from the call to the return
DecodeAlone(taf_text) ==
    With(Strip(taf_text), LAMBDA raw :
    With(Normalize(raw), LAMBDA t :
    With(<<ParseHeader(t), ParseMainForecast(t), ParseChanges(t)>>, LAMBDA p :
    With([NewDecoded(raw) EXCEPT !.station = p[1].station,
                                 !.issue_time = p[1].issue_time,
                                 !.valid_period = p[1].valid_period,
                                 !.wind = p[2].wind,
                                 !.visibility = p[2].visibility,
                                 !.weather = p[2].weather,
                                 !.clouds = p[2].clouds,
                                 !.temperature = p[2].temperature,
                                 !.changes = p[3]], LAMBDA d :
        [d EXCEPT !.human_readable = GenerateHumanText(d)]))))

(***************************************************************************)
(* decode_taf_file: one decoder (line 599), one call for each item, one    *)
(* after the other; the list keeps what each call returned                 *)
(***************************************************************************)
\* lines 602-604: decoder.decode(item['taf']['raw']) for the next item
FileDecode ==
    /\ Len(decoded_list) < MaxItems
    /\ \E taf_text \in FileTafs : DecodeLine143("t1", taf_text)

\* lines 606-613: the entry of the item, 'full_data' being the dict returned
FileAppend ==
    /\ calls["t1"].pc = "returned"
    /\ decoded_list' = Append(decoded_list,
                              [raw       |-> calls["t1"].taf_text,
                               decoded   |-> heap[calls["t1"].result].human_readable,
                               full_data |-> calls["t1"].result])
    /\ calls' = [calls EXCEPT !["t1"] = IdleCall]
    /\ UNCHANGED <<raw_taf, heap, self_decoded, single, collectors>>

FileNext ==
    \/ FileDecode
    \/ DecodeLine144("t1")
    \/ DecodeLine161("t1")
    \/ DecodeLine164("t1")
    \/ DecodeLine165("t1")
    \/ DecodeLine166("t1")
    \/ DecodeLine169("t1")
    \/ DecodeLine174("t1")
    \/ FileAppend

FileSpec == Init /\ [][FileNext]_vars

(***************************************************************************)
(* Two callers, each making one call of decode on the same decoder, their  *)
(* statements interleaved in every way                                     *)
(***************************************************************************)
ThreadDecode(t) == \E taf_text \in FileTafs : DecodeLine143(t, taf_text)

ThreadNext ==
    \E t \in Threads :
        \/ ThreadDecode(t)
        \/ DecodeLine144(t)
        \/ DecodeLine161(t)
        \/ DecodeLine164(t)
        \/ DecodeLine165(t)
        \/ DecodeLine166(t)
        \/ DecodeLine169(t)
        \/ DecodeLine174(t)

ThreadSpec == Init /\ [][ThreadNext]_vars

(***************************************************************************)
(* fetch_all_notams, a step for each statement that the loop over the      *)
(* sources takes                                                           *)
(***************************************************************************)
\* lines 64-88: the call, up to the loop
FetchAllNotams ==
    /\ fetch_pc = "idle"
    /\ notam_results' = NewNotamResults
    /\ source_index' = 1
    /\ queried' = <<>>
    /\ fetch_pc' = "for"
    /\ UNCHANGED <<single, raw_taf, instance, gatherer>>

\* lines 90-103: the next source is tried; a list with NOTAMs is kept and
\* ends the loop, an empty one or an exception goes on to the sleep
TrySource ==
    /\ fetch_pc = "for"
    /\ source_index <= Len(Sources)
    /\ \E notams \in ParseOutcomes :
          /\ queried' = Append(queried, [source_name |-> Sources[source_index],
                                         gave |-> notams])
          /\ IF notams # Raised /\ NonEmpty(notams)
             THEN /\ notam_results' = [source |-> Some(Sources[source_index]),
                                       notams |-> notams,
                                       total_notams |-> Len(notams)]
                  /\ fetch_pc' = "108"
             ELSE /\ notam_results' = notam_results
                  /\ fetch_pc' = "106"
    /\ UNCHANGED <<source_index, single, raw_taf, instance, gatherer>>

\* line 106: time.sleep(1), and on to the next source
Sleep ==
    /\ fetch_pc = "106"
    /\ source_index' = source_index + 1
    /\ fetch_pc' = "for"
    /\ UNCHANGED <<notam_results, queried, single, raw_taf, instance, gatherer>>

\* line 90: no source is left
SourcesExhausted ==
    /\ fetch_pc = "for"
    /\ source_index > Len(Sources)
    /\ fetch_pc' = "108"
    /\ UNCHANGED <<source_index, notam_results, queried, single, raw_taf, instance,
                   gatherer>>

\* lines 108-111: return results
FetchReturn ==
    /\ fetch_pc = "108"
    /\ fetch_pc' = "returned"
    /\ UNCHANGED <<source_index, notam_results, queried, single, raw_taf, instance,
                   gatherer>>

FetchNext ==
    \/ FetchAllNotams
    \/ TrySource
    \/ Sleep
    \/ SourcesExhausted
    \/ FetchReturn

FetchSpec == Init /\ [][FetchNext]_vars

(***************************************************************************)
(* collect_all_taf, a step for each statement that the two loops take      *)
(***************************************************************************)
\* the country the outer loop is at
CountryCode == countries[country_index]

\* lines 310-321: the call, up to the loop over the countries
CollectAllTaf ==
    /\ collect_pc = "idle"
    /\ \E a \in CountryArgs : countries' = CountriesOf(a)
    /\ taf_results' = NewTafResults
    /\ country_stats' = NewCountryStats(0)
    /\ country_index' = 1
    /\ airport_index' = 0
    /\ collect_pc' = "328"
    /\ UNCHANGED <<single, raw_taf, instance, fetcher>>

\* lines 328-331: a code that is not in AIRPORTS is passed over
SkipCountry ==
    /\ collect_pc = "328"
    /\ country_index <= Len(countries)
    /\ CountryCode \notin DOMAIN TafAirports
    /\ country_index' = country_index + 1
    /\ UNCHANGED <<collect_pc, countries, airport_index, taf_results, country_stats,
                   single, raw_taf, instance, fetcher>>

\* lines 328-352: a country of AIRPORTS, up to the loop over its airports
StartCountry ==
    /\ collect_pc = "328"
    /\ country_index <= Len(countries)
    /\ CountryCode \in DOMAIN TafAirports
    /\ country_stats' = NewCountryStats(Len(TafAirports[CountryCode]))
    /\ airport_index' = 1
    /\ collect_pc' = "354"
    /\ UNCHANGED <<countries, country_index, taf_results, single, raw_taf, instance,
                   fetcher>>

\* lines 354-359: results['total_airports'] += 1 for the next airport
CountAirport ==
    /\ collect_pc = "354"
    /\ airport_index <= Len(TafAirports[CountryCode])
    /\ taf_results' = [taf_results EXCEPT !.total_airports = @ + 1]
    /\ collect_pc' = "364"
    /\ UNCHANGED <<countries, country_index, airport_index, country_stats, single,
                   raw_taf, instance, fetcher>>

\* lines 364-391: collector.collect and the branch on what it gave, then
\* the sleep
CollectAirport ==
    /\ collect_pc = "364"
    /\ \E taf_data \in CollectOutcomes :
          IF taf_data # None
          THEN \E airport_data \in {[icao |-> TafAirports[CountryCode][airport_index],
                                      taf |-> Val(taf_data)]} :
                  /\ taf_results' = [taf_results EXCEPT !.successful = @ + 1,
                                                        !.taf_data = Append(@, airport_data)]
                  /\ country_stats' = [country_stats EXCEPT
                                           !.successful = @ + 1,
                                           !.airports = Append(@, airport_data)]
          ELSE /\ taf_results' = [taf_results EXCEPT !.failed = @ + 1]
               /\ country_stats' = [country_stats EXCEPT !.failed = @ + 1]
    /\ airport_index' = airport_index + 1
    /\ collect_pc' = "354"
    /\ UNCHANGED <<countries, country_index, single, raw_taf, instance, fetcher>>

\* line 393: the airports are done, the stats are put in results
EndCountry ==
    /\ collect_pc = "354"
    /\ airport_index > Len(TafAirports[CountryCode])
    /\ taf_results' = [taf_results EXCEPT
                           !.countries = SetCountry(@, CountryCode, country_stats)]
    /\ country_index' = country_index + 1
    /\ collect_pc' = "328"
    /\ UNCHANGED <<countries, airport_index, country_stats, single, raw_taf, instance,
                   fetcher>>

\* lines 396-405: the totals are printed, the share of successes being
\* successful / total_airports * 100, which raises ZeroDivisionError when
\* no airport was counted
PrintTotals ==
    /\ collect_pc = "328"
    /\ country_index > Len(countries)
    /\ collect_pc' = IF taf_results.total_airports = 0 THEN "raised" ELSE "413"
    /\ UNCHANGED <<countries, country_index, airport_index, taf_results, country_stats,
                   single, raw_taf, instance, fetcher>>

\* lines 408-413: no output_file; return results
CollectReturn ==
    /\ collect_pc = "413"
    /\ collect_pc' = "returned"
    /\ UNCHANGED <<countries, country_index, airport_index, taf_results, country_stats,
                   single, raw_taf, instance, fetcher>>

CollectNext ==
    \/ CollectAllTaf
    \/ SkipCountry
    \/ StartCountry
    \/ CountAirport
    \/ CollectAirport
    \/ EndCountry
    \/ PrintTotals
    \/ CollectReturn

CollectSpec == Init /\ [][CollectNext]_vars

(***************************************************************************)
(* What the parts of a block say, read off the parts and not the text      *)
(***************************************************************************)
\* the first well-formed ID group of the block, None when it has none
ExpectedGroup(a) ==
    IF a.id1 # NoGroup /\ IdGroupValid(a.id1) THEN Some(a.id1)
    ELSE IF a.id2 # NoGroup /\ IdGroupValid(a.id2) THEN Some(a.id2)
    ELSE None

\* the text of a lettered field after its marker and blank
Fld(x) == SubSeq(x, 4, Len(x))

OptFld(x) == IF x = "" THEN None ELSE Some(Fld(x))

QWellFormed(q) == q \in QWithRadius \cup QNoRadius

ParsedNotam == pc = "done" /\ op = "_parse_raw_notam"

(***************************************************************************)
(* C1.  NOTAM extraction fails closed: a block with no                     *)
(* <Letter><4 digits>/<2 digits>, blanks, NOTAM[NRC] gives no record, and  *)
(* a block with one gives a record whose id and type are those of the      *)
(* first such match.                                                       *)
(***************************************************************************)
\* C1: no ID match, no record; an ID match, the id and type of the first
C1_FailsClosed ==
    ParsedNotam =>
        LET g == ExpectedGroup(arg)
        IN  IF g = None THEN ret = None
            ELSE /\ ret # None
                 /\ Val(ret).id = Val(g).id
                 /\ Val(ret).type = Val(g).kind

\* a block whose first ID group is malformed and whose second is the match
C1_Witness ==
    /\ ParsedNotam
    /\ ~IdGroupValid(arg.id1)
    /\ arg.id1.id \in GoodIds
    /\ arg.id2 # NoGroup
    /\ ret # None
    /\ Val(ret).id = "Z0001/25"
    /\ Val(ret).type = "R"

(***************************************************************************)
(* C3.  Century of a 10-digit timestamp YYMMDDHHmm: for every current year *)
(* and every YY, the decoded year is in the century before the current     *)
(* year's century when YY > (currentYear mod 100) + 5, and in the current  *)
(* year's century otherwise.                                               *)
(***************************************************************************)
\* the block's B) field is YY03011230, a date of every year
YearProbe(a) == a.b # "" /\ Len(a.b) = 13 /\ SubSeq(a.b, 6, 13) = "03011230"

ProbeYY(a) == StrToInt(SubSeq(a.b, 4, 5))

DecodedYear(r) == StrToInt(SubSeq(Val(Val(r).valid_from), 1, 4))

ThisCentury(y) == (y \div 100) * 100

\* C3 as stated: the century follows the current year's century
C3_CenturyOfCurrentYear ==
    (ParsedNotam /\ ExpectedGroup(arg) # None /\ YearProbe(arg)) =>
        /\ ret # None
        /\ Val(ret).valid_from # None
        /\ DecodedYear(ret) =
              (IF ProbeYY(arg) > (arg.now % 100) + 5
               THEN ThisCentury(arg.now) - 100 + ProbeYY(arg)
               ELSE ThisCentury(arg.now) + ProbeYY(arg))

\* the clock at 2100 and the stamp 0303011230: the year decoded is 2003
C3_Witness ==
    /\ ParsedNotam
    /\ arg.now = 2100
    /\ YearProbe(arg)
    /\ ProbeYY(arg) = 3
    /\ ret # None
    /\ Val(ret).valid_from = Some("2003-03-01T12:30:00Z")

\* what the code does under every clock: the centuries are 1900 and 2000,
\* whatever the current year's century is
CenturyIs1900Or2000 ==
    (ParsedNotam /\ ExpectedGroup(arg) # None /\ YearProbe(arg)) =>
        /\ ret # None
        /\ Val(ret).valid_from # None
        /\ DecodedYear(ret) =
              (IF ProbeYY(arg) > (arg.now % 100) + 5
               THEN 1900 + ProbeYY(arg)
               ELSE 2000 + ProbeYY(arg))

(***************************************************************************)
(* C4.  A B) or C) timestamp with month, day, hour or minute out of range, *)
(* or with a digit count that is neither 10 nor 12, gives an absent        *)
(* datetime for that field only: the record is still produced and every    *)
(* sibling field is what it is with a valid timestamp in that position.    *)
(***************************************************************************)
\* the fields of two records other than raw (the text itself) and `skip`
SiblingsEqual(r1, r2, skip) ==
    \A k \in (DOMAIN r1) \ ({"raw"} \cup skip) : r1[k] = r2[k]

\* the record of the same block with the standard B) (or C)) in place
WithStdB(a) == ParseRawNotam(NotamText([a EXCEPT !.b = StdB]), a.now)

WithStdC(a) == ParseRawNotam(NotamText([a EXCEPT !.c = StdC]), a.now)

BadBField(a, bad) == a.b # "" /\ Fld(a.b) \in bad

BadCField(a, bad) == a.c # "" /\ Fld(a.c) \in bad

AbsentOnly(bad) ==
    (ParsedNotam /\ ExpectedGroup(arg) # None) =>
        /\ ret # None
        /\ BadBField(arg, bad) =>
              /\ Val(ret).valid_from = None
              /\ SiblingsEqual(Val(ret), Val(WithStdB(arg)), {"valid_from"})
        /\ BadCField(arg, bad) =>
              /\ Val(ret).valid_to = None
              /\ ~Val(ret).is_permanent
              /\ SiblingsEqual(Val(ret), Val(WithStdC(arg)), {"valid_to"})

\* C4 as stated: a B) or C) value of any digit count other than 10 and 12
\* (13 digits too) gives an absent datetime for that field only
C4_AnyDigitCountAbsent ==
    AbsentOnly(BadStamps \cup ShortStamps \cup LongBadStamps \cup LongGoodStamps)

\* C4, amended: a B) or C) value out of range, or of fewer than 10 digits,
\* or of 11, gives an absent datetime for that field only, the record is
\* produced and the siblings are unchanged; a run of more than 12 digits is
\* read as its first 12 digits
C4_BadStampAbsent ==
    /\ AbsentOnly(BadStamps \cup ShortStamps \cup LongBadStamps)
    /\ (ParsedNotam /\ BadBField(arg, LongGoodStamps)) =>
          /\ ret # None
          /\ Val(ret).valid_from = Some("2024-03-01T12:30:00Z")
          /\ SiblingsEqual(Val(ret), Val(WithStdB(arg)), {"valid_from"})
    /\ (ParsedNotam /\ BadCField(arg, LongGoodStamps)) =>
          /\ ret # None
          /\ Val(ret).valid_to = Some("2024-03-01T12:30:00Z")
          /\ SiblingsEqual(Val(ret), Val(WithStdC(arg)), {"valid_to"})

\* a block whose B) names 30 February and whose C) decodes
C4_Witness ==
    /\ ParsedNotam
    /\ arg.b = "B) 2402301230"
    /\ arg.c = "C) 2402291230"
    /\ ret # None
    /\ Val(ret).valid_from = None
    /\ Val(ret).valid_to = Some("2024-02-29T12:30:00Z")
    /\ Val(ret).location = Some("UACC")

(***************************************************************************)
(* C5.  Location: the A) code when an A) field with a 4-letter code is     *)
(* there; the Q-line FIR when it is not and the Q-line matched; absent     *)
(* when neither is there, and the record is still produced.                *)
(***************************************************************************)
HasACode(a) == a.a \in {ACode(k) : k \in 0..MaxWs}

\* C5: the A) code, else the FIR of a matched Q-line, else absent
C5_Location ==
    (ParsedNotam /\ ExpectedGroup(arg) # None) =>
        /\ ret # None
        /\ Val(ret).location =
              (IF HasACode(arg) THEN Some("UACC")
               ELSE IF QWellFormed(arg.q) THEN Some(QFir(arg.q))
               ELSE None)

\* no A) field, a Q-line of FIR UAAA: the location falls back to the FIR
C5_Witness ==
    /\ ParsedNotam
    /\ arg.a = ""
    /\ arg.q = StdQ
    /\ ret # None
    /\ Val(ret).location = Some("UAAA")

EBody(a) == Strip(SubSeq(a.e, 3, Len(a.e)))

\* the text of the E) field has the letters of the F) or G) field in it
MarkerInBody(a) == Contains(EBody(a), "F)") \/ Contains(EBody(a), "G)")

\* what a field's presence gives, whatever the other fields do; E), F) and
\* G) when the text of E) does not hold 'F)' or 'G)'
FieldsDecodedAlone(a, r) ==
    /\ r.schedule = OptFld(a.d)
    /\ ~MarkerInBody(a) =>
          /\ r.description_raw = (IF a.e = "" THEN None ELSE Some(EBody(a)))
          /\ r.lower_limit = OptFld(a.f)
          /\ r.upper_limit = OptFld(a.g)
    /\ (a.a = "") => (r.location = DictGet(r.q_data, "fir"))
    /\ (a.a = StdA) => (r.location = Some("UACC"))
    /\ (a.b = "") => (r.valid_from = None)
    /\ (a.b = StdB) => (r.valid_from # None)
    /\ (a.b = StdB /\ a.now = 2024) => (r.valid_from = Some("2024-03-01T12:30:00Z"))
    /\ (a.c = "") => (r.valid_to = None)
    /\ (a.c = StdC) => (r.valid_to # None)
    /\ (a.c = StdC /\ a.now = 2024) => (r.valid_to = Some("2024-03-05T18:00:00Z"))

C6_WitnessFields ==
    /\ ParsedNotam
    /\ arg.b = "" /\ arg.d = "" /\ arg.f = ""
    /\ arg.q = StdQ /\ arg.e = StdE /\ arg.g = StdG
    /\ ret # None
    /\ Val(ret).upper_limit = Some("FL100")
    /\ Val(ret).lower_limit = None

(***************************************************************************)
(* C2.  Q-code classification of a 5-character code: Critical iff it is    *)
(* one of QFALC, QMRLC, QMXLC, QNIAS (the exact match goes first);         *)
(* otherwise Warning iff its first four characters are those of a warning  *)
(* pattern; otherwise Info.  QFALC is Critical, QMRLT is Warning, and the  *)
(* unknown QZZZZ is Info with the code itself as its category text.        *)
(***************************************************************************)
DecodedNotam == pc = "done" /\ op = "decode_notam"

WarningFamilies == {"QMRL", "QMAL", "QMGL", "QRRC", "QOBX"}

SeverityOf(code) ==
    IF code \in {"QFALC", "QMRLC", "QMXLC", "QNIAS"} THEN "critical"
    ELSE IF SubSeq(code, 1, 4) \in WarningFamilies THEN "warning"
    ELSE "info"

\* C2: the severity of every 5-character code is the one the rule gives
C2_Severity ==
    (DecodedNotam /\ arg.q_code # None /\ Val(arg.q_code) # "") =>
        LET code == Val(arg.q_code)
        IN  /\ ret.severity = Some(SeverityOf(code))
            /\ (code = "QFALC") => (ret.severity = Some("critical"))
            /\ (code = "QMRLT") => (ret.severity = Some("warning"))
            /\ (code = "QZZZZ") => (ret.severity = Some("info") /\ ret.q_decoded = Some("QZZZZ"))
            /\ (code \notin DOMAIN Q_CODES) => (ret.q_decoded = Some(code))

\* QMRLC: in the warning family QMRL, and Critical by the exact match
C2_Witness ==
    /\ DecodedNotam
    /\ arg.q_code = Some("QMRLC")
    /\ ret.severity = Some("critical")
    /\ ret.q_decoded = Some("runway closed")

(***************************************************************************)
(* C7.  The TAF of the example: station UAAA, issued on day 10 at 11:00,   *)
(* valid 10/12 to 11/12, baseline wind 320 degrees 7 m/s gusting 12 m/s,   *)
(* visibility 10000 m, clouds FEW at 4000 ft then BKN at 10000 ft, no      *)
(* baseline weather, and exactly one change group: TEMPO, visibility       *)
(* 4000 m, one weather entry (TS+RA), one cloud layer BKN at 2000 ft, CB.  *)
(***************************************************************************)
C7Sample ==
    "TAF UAAA 101100Z 1012/1112 32015G25KT 9999 FEW040 BKN100 TEMPO 1014/1018 4000 TSRA BKN020CB"

DecodedTaf == pc = "done" /\ op = "decode"

\* C7: the decoding of the example TAF is the one the example gives
C7_SampleDecoding ==
    (DecodedTaf /\ TafText(arg) = C7Sample) =>
        /\ ret.raw = C7Sample
        /\ ret.station = Some("UAAA")
        /\ ret.issue_time # None
        /\ Val(ret.issue_time).day = 10
        /\ Val(ret.issue_time).hour = 11
        /\ Val(ret.issue_time).minute = 0
        /\ ret.valid_period # None
        /\ Val(ret.valid_period).from_day = 10
        /\ Val(ret.valid_period).from_hour = 12
        /\ Val(ret.valid_period).to_day = 11
        /\ Val(ret.valid_period).to_hour = 12
        /\ ret.wind # None
        /\ Val(ret.wind).direction = Some(320)
        /\ Val(ret.wind).speed = 7
        /\ Val(ret.wind).gusts = Some(12)
        /\ ret.visibility # None
        /\ Val(ret.visibility).meters = 10000
        /\ Len(ret.clouds) = 2
        /\ ret.clouds[1].cover = "FEW" /\ ret.clouds[1].height_ft = 4000
        /\ ret.clouds[2].cover = "BKN" /\ ret.clouds[2].height_ft = 10000
        /\ ret.weather = <<>>
        /\ Len(ret.changes) = 1
        /\ ret.changes[1].indicator = "TEMPO"
        /\ ret.changes[1].visibility # None
        /\ Val(ret.changes[1].visibility).meters = 4000
        /\ Len(ret.changes[1].weather) = 1
        /\ ret.changes[1].weather[1].code = "TSRA"
        /\ ret.changes[1].weather[1].text = "thunder thunderstorm rain"
        /\ Len(ret.changes[1].clouds) = 1
        /\ ret.changes[1].clouds[1].cover = "BKN"
        /\ ret.changes[1].clouds[1].height_ft = 2000
        /\ ret.changes[1].clouds[1].type = Some("CB")

\* the example decoded, with its one change group
C7_Witness ==
    /\ DecodedTaf
    /\ raw_taf = C7Sample
    /\ Len(ret.changes) = 1
    /\ ret.changes[1].indicator_text = "at times"
    /\ Len(ret.clouds) = 2

(***************************************************************************)
(* C8.  Wind of a fixed-direction token dddss[Ggg](KT|MPS): the direction  *)
(* is ddd; in KT the speed and the gusts are floor(ss*514/1000) and        *)
(* floor(gg*514/1000) m/s, in MPS they are ss and gg; the compass sector   *)
(* is floor((ddd + 22.5) / 45) mod 8 over N, NE, E, SE, S, SW, W, NW.      *)
(***************************************************************************)
ParsedWind == pc = "done" /\ op = "_parse_wind"

\* 00000KT and 00000MPS are the calm form, not a fixed-direction token
CalmToken(a) == a.ddd = "000" /\ a.ss = "00" /\ a.gg = ""

\* floor((ddd + 22.5) / 45) mod 8 for the directions of WindDirs, by hand
SectorOf(ddd) ==
    CASE ddd \in {"000", "022", "338", "360"} -> "N"
      [] ddd \in {"023", "067"} -> "NE"
      [] ddd = "068" -> "E"
      [] ddd = "180" -> "S"
      [] ddd \in {"320", "337"} -> "NW"

InMps(digits, unit) ==
    IF unit = "KT" THEN (StrToInt(digits) * 514) \div 1000 ELSE StrToInt(digits)

WindAsClaimed(a, r) ==
    /\ r # None
    /\ Val(r).direction = Some(StrToInt(a.ddd))
    /\ Val(r).direction_text = SectorOf(a.ddd)
    /\ Val(r).speed = InMps(a.ss, a.unit)
    /\ Val(r).gusts = (IF a.gg = "" THEN None ELSE Some(InMps(a.gg, a.unit)))

\* C8 as stated: every fixed-direction token, a gust group of 00 included
C8_FixedDirectionWind ==
    (ParsedWind /\ ~CalmToken(arg)) => WindAsClaimed(arg, ret)

\* what the code does: the rule but for G00 in KT, whose gusts are absent
\* where those of G00 in MPS are 0
WindButZeroGustKnots ==
    (ParsedWind /\ ~CalmToken(arg)) =>
        IF arg.gg = "00" /\ arg.unit = "KT"
        THEN /\ WindAsClaimed([arg EXCEPT !.gg = ""], ret)
        ELSE WindAsClaimed(arg, ret)

\* 32015G00KT decoded: 320 degrees, 7 m/s, no gusts
C8_Witness ==
    /\ ParsedWind
    /\ WindToken(arg) = "32015G00KT"
    /\ ret # None
    /\ Val(ret).speed = 7
    /\ Val(ret).gusts = None

(***************************************************************************)
(* C9.  Visibility of a segment: with CAVOK in it, 10000 m and the CAVOK   *)
(* note, before 9999 and before any 4-digit token; else with 9999 in it,   *)
(* 10000 m and another note; else a 4-digit value v gives v metres, Good   *)
(* from 5000, Moderate 3000-4999, Limited 1000-2999, Poor below 1000.      *)
(***************************************************************************)
ParsedVisibility == pc = "done" /\ op = "_parse_visibility"

RECURSIVE Elems(_)
Elems(list) == IF Len(list) = 0 THEN {} ELSE {Head(list)} \cup Elems(Tail(list))

TierOf(v) ==
    IF v >= 5000 THEN "good"
    ELSE IF v >= 3000 THEN "moderate"
    ELSE IF v >= 1000 THEN "limited"
    ELSE "poor"

CavokNote == "visibility over 10 km, no cloud below 1500 m, no thunderstorm (CAVOK)"

\* what the rule gives for the segment of tokens `vis`; `placed` are the
\* 4-digit tokens the rule counts
VisibilityAsClaimed(vis, placed, r) ==
    IF "CAVOK" \in Elems(vis)
    THEN r # None /\ Val(r).meters = 10000 /\ Val(r).text = CavokNote
    ELSE IF "9999" \in Elems(vis)
    THEN r # None /\ Val(r).meters = 10000 /\ Val(r).text # CavokNote
    ELSE IF placed # {}
    THEN /\ r # None
         /\ \E t \in placed : Val(r).meters = StrToInt(t)
         /\ Val(r).quality = TierOf(Val(r).meters)
    ELSE r = None

\* C9 as stated: a 4-digit token gives the visibility wherever it stands
C9_VisibilityTiers ==
    ParsedVisibility =>
        VisibilityAsClaimed(arg.vis, Elems(arg.vis) \cap FourDigitTokens, ret)

\* the 4-digit tokens of a segment with a token, so a blank, on both sides
Flanked(a) ==
    {a.vis[k] : k \in {j \in 1..Len(a.vis) :
                          /\ a.vis[j] \in FourDigitTokens
                          /\ (j > 1 \/ a.pre)
                          /\ (j < Len(a.vis) \/ a.post)}}

\* what the code does: only a 4-digit token with a blank before it and a
\* blank after it is the visibility
VisibilityOfFlankedToken ==
    ParsedVisibility => VisibilityAsClaimed(arg.vis, Flanked(arg), ret)

\* the segment "32015KT 4000": its last token is 4000, and nothing is decoded
C9_Witness ==
    /\ ParsedVisibility
    /\ VisText(arg) = "32015KT 4000"
    /\ ret = None

(***************************************************************************)
(* C10.  Clouds: every (FEW|SCT|BKN|OVC|VV) + hhh + optional (CB|TCU) of a *)
(* segment gives one layer with that cover, height_ft = hhh * 100,         *)
(* height_m = floor(height_ft * 3048 / 10000) and the type or none; the    *)
(* layers are in the order of the text; BKN040CB is BKN, 4000 ft, 1219 m,  *)
(* CB.                                                                     *)
(***************************************************************************)
ParsedClouds == pc = "done" /\ op = "_parse_clouds"

LayerAsClaimed(l, r) ==
    /\ r.cover = l.cover
    /\ r.height_ft = StrToInt(l.hhh) * 100
    /\ r.height_m = (StrToInt(l.hhh) * 100 * 3048) \div 10000
    /\ r.type = (IF l.type = "" THEN None ELSE Some(l.type))

\* C10: one layer for each cloud group of the segment, in its order
C10_CloudLayers ==
    ParsedClouds =>
        /\ Len(ret) = Len(arg.layers)
        /\ \A k \in 1..Len(arg.layers) : LayerAsClaimed(arg.layers[k], ret[k])
        /\ \A k \in 1..Len(arg.layers) :
              CloudToken(arg.layers[k]) = "BKN040CB" =>
                  /\ ret[k].cover = "BKN"
                  /\ ret[k].height_ft = 4000
                  /\ ret[k].height_m = 1219
                  /\ ret[k].type = Some("CB")

\* OVC002TCU then BKN040CB among other tokens: two layers, in that order,
\* 60 m (60.96 truncated) and 1219 m
C10_Witness ==
    /\ ParsedClouds
    /\ arg.among
    /\ Len(arg.layers) = 2
    /\ CloudToken(arg.layers[1]) = "OVC002TCU"
    /\ CloudToken(arg.layers[2]) = "BKN040CB"
    /\ Len(ret) = 2
    /\ ret[1].height_m = 60
    /\ ret[2].height_m = 1219


(***************************************************************************)
(* C11.  Weather code: after one leading marker, the rest is read two      *)
(* characters at a time from its start; a span of the table gives its      *)
(* phrase, a span not in the table is skipped as a whole, so only the      *)
(* spans at even offsets are looked up.                                    *)
(***************************************************************************)
DecodedWeatherCode == pc = "done" /\ op = "_decode_weather_code"

\* the phrases of the spans at even offsets, in order
RECURSIVE EvenSpans(_)
EvenSpans(rest) ==
    IF Len(rest) = 0 THEN <<>>
    ELSE (IF Len(rest) >= 2 /\ SubSeq(rest, 1, 2) \in DOMAIN WEATHER_PHENOMENA
          THEN <<WEATHER_PHENOMENA[SubSeq(rest, 1, 2)]>> ELSE <<>>)
         \o EvenSpans(SubSeq(rest, IF Len(rest) >= 2 THEN 3 ELSE 2, Len(rest)))

MarkerPhrase(marker) ==
    IF marker = "-" THEN <<"light">>
    ELSE IF marker = "+" THEN <<"heavy">>
    ELSE IF marker = "VC" THEN <<"in the vicinity">>
    ELSE <<>>

\* the phrases after the emoji word of a returned text
PhrasesOf(text, rest) == SubSeq(text, Len(GetWeatherEmoji(rest)) + 2, Len(text))

\* C11: the phrases of a code are the marker's and those of the spans at
\* even offsets of the rest; with neither there is no text
C11_EvenOffsetScan ==
    DecodedWeatherCode =>
        LET rest     == Join(arg.pieces, "")
            expected == MarkerPhrase(arg.marker) \o EvenSpans(rest)
        IN  IF expected = <<>> THEN ret = None
            ELSE ret # None /\ PhrasesOf(Val(ret), rest) = Join(expected, " ")

\* a code with no marker and no span of the table anywhere gives no text
C11_NoMatchNoEntry ==
    (DecodedWeatherCode /\ arg.marker = ""
        /\ \A k \in 1..Len(arg.pieces) : arg.pieces[k] \in {"X", "ZZ"}) => ret = None

\* XRA: the span at offset 0 is XR, the scan moves on by one and finds RA
\* at offset 1
C11_Witness ==
    /\ DecodedWeatherCode
    /\ WxCodeText(arg) = "XRA"
    /\ ret = Some("rain rain")


(***************************************************************************)
(* C12.  Changes: one entry for each change indicator of the message, in   *)
(* the order of the text, each decoded from the text between its indicator *)
(* and the next one.                                                       *)
(***************************************************************************)
\* the entry of one indicator and its body
EntryAsClaimed(c, r) ==
    /\ r.indicator = c.ind
    /\ r.wind = ParseWind(c.body)
    /\ r.visibility = ParseVisibility(c.body)
    /\ r.weather = ParseWeather(c.body)
    /\ r.clouds = ParseClouds(c.body)

ChangesAsClaimed(a, changes) ==
    /\ Len(changes) = Len(a.changes)
    /\ \A k \in 1..Len(a.changes) : EntryAsClaimed(a.changes[k], changes[k])

\* the message has no token before its first indicator
StartsWithIndicator(a) ==
    /\ a.changes # <<>>
    /\ a.wind = "" /\ a.vis = "" /\ a.wx = "" /\ a.clouds = <<>>
    /\ a.head \in {"", " "}

\* every indicator of the message is one of the forms of line 479, FM with
\* its six digits
WholeIndicators(a) ==
    \A k \in 1..Len(a.changes) : IndicatorLen(a.changes[k].ind, 1) = Len(a.changes[k].ind)

\* C12: the changes of a decoded message are its indicators' entries, in
\* the order of the text
C12_OneEntryPerIndicator == DecodedTaf => ChangesAsClaimed(arg, ret.changes)

\* so it is whenever a token stands before the first indicator
C12_AfterAnotherToken ==
    (DecodedTaf /\ ~StartsWithIndicator(arg) /\ WholeIndicators(arg))
        => ChangesAsClaimed(arg, ret.changes)

\* FM110600, PROB40, FM101200 at the start of the message: the first
\* indicator has no blank before it and gets no entry, and its body is
\* read as the baseline
C12_Witness ==
    /\ DecodedTaf
    /\ TafText(arg) = "FM110600 VRB03KT CAVOK PROB40 1100/1102 3000 +SHRA OVC002TCU "
                         \o "FM101200 00000MPS 0800 FG VV002"
    /\ Len(ret.changes) = 2
    /\ ret.changes[1].indicator = "PROB40"
    /\ ret.changes[2].indicator = "FM101200"
    /\ ret.wind # None /\ Val(ret.wind).direction = Some("variable")

\* the same three groups after a header: three entries, in the order of the
\* text and not of the times
C12_WitnessInOrder ==
    /\ DecodedTaf
    /\ arg.head = "TAF UAAA 101100Z 1012/1112"
    /\ Len(ret.changes) = 3
    /\ ret.changes[1].indicator = "FM110600"
    /\ ret.changes[2].indicator = "PROB40"
    /\ ret.changes[3].indicator = "FM101200"


(***************************************************************************)
(* C13.  Change indicators: FMDDHHmm is a from-time of day DD, hour HH,    *)
(* minute mm; TEMPO, BECMG and PROBnn have their own readings; PROBnn      *)
(* TEMPO is one group whose reading differs from that of PROBnn.           *)
(***************************************************************************)
ProbabilityText(nn) == "probability " \o nn \o "%"

IsProbTempo(ind) == Len(ind) > 6 /\ StartsWith(ind, "PROB")

\* the reading of an indicator other than PROBnn TEMPO
ReadingAsClaimed(ind, text) ==
    IF StartsWith(ind, "FM")
    THEN text = "from day " \o SubSeq(ind, 3, 4) \o " " \o SubSeq(ind, 5, 6) \o ":"
                    \o SubSeq(ind, 7, 8) \o " UTC"
    ELSE IF ind = "TEMPO" THEN text = "at times"
    ELSE IF ind = "BECMG" THEN text = "gradual change"
    ELSE text = ProbabilityText(SubSeq(ind, 5, 6))

\* C13: every indicator has the reading of its kind, and the reading of
\* PROBnn TEMPO is not the reading of PROBnn
C13_IndicatorDecoding ==
    (DecodedTaf /\ ~StartsWithIndicator(arg) /\ WholeIndicators(arg)) =>
        /\ Len(ret.changes) = Len(arg.changes)
        /\ \A k \in 1..Len(ret.changes) :
              LET ind == arg.changes[k].ind
                  r   == ret.changes[k]
              IN  /\ r.indicator = ind
                  /\ IF IsProbTempo(ind)
                     THEN r.indicator_text # ProbabilityText(SubSeq(ind, 5, 6))
                     ELSE ReadingAsClaimed(ind, r.indicator_text)

\* the indicators other than PROBnn TEMPO are read as stated, and PROBnn
\* TEMPO is one group
C13_OtherIndicators ==
    (DecodedTaf /\ ~StartsWithIndicator(arg) /\ WholeIndicators(arg)) =>
        /\ Len(ret.changes) = Len(arg.changes)
        /\ \A k \in 1..Len(ret.changes) :
              /\ ret.changes[k].indicator = arg.changes[k].ind
              /\ ~IsProbTempo(arg.changes[k].ind) =>
                    ReadingAsClaimed(arg.changes[k].ind, ret.changes[k].indicator_text)

\* PROB30 TEMPO after a header: one group, read as PROB30 is
C13_Witness ==
    /\ DecodedTaf
    /\ arg.head = "TAF UAAA 101100Z 1012/1112"
    /\ Len(arg.changes) = 1 /\ arg.changes[1].ind = "PROB30 TEMPO"
    /\ Len(ret.changes) = 1
    /\ ret.changes[1].indicator = "PROB30 TEMPO"
    /\ ret.changes[1].indicator_text = "probability 30%"


(***************************************************************************)
(* C14.  decode gives, for every text, a record with the header, baseline  *)
(* and changes keys, a field that is not recognised being None or an empty *)
(* list; a message without a station has its other fields decoded all the  *)
(* same.                                                                   *)
(***************************************************************************)
RecordKeys ==
    {"station", "issue_time", "valid_period", "wind", "visibility", "weather", "clouds",
     "temperature", "changes"}

HasStation(a) ==
    a.head \in {"TAF UAAA 101100Z 1012/1112", "TAF AMD UAAA 101100Z 1012/1112"}
                   \cup TafStationHeads

\* the station of a header that has one: the word before the time of issue
StationOf(a) ==
    With(SplitWs(a.head), LAMBDA words : words[Len(words) - 2])

NoHeader(a) == a.head \in {"", " "}

\* the message with a station put before it
WithStation(a) == Normalize(Strip("TAF UAAA " \o TafText(a)))

\* C14: the keys are there, what the message lacks is None or empty, and
\* the fields of a message without a station, the station apart, are those
\* of the same message with one
C14_StructuralSuccess ==
    DecodedTaf =>
        /\ RecordKeys \subseteq DOMAIN ret
        /\ ret.station = (IF HasStation(arg) THEN Some(StationOf(arg)) ELSE None)
        /\ ret.issue_time = None <=> NoHeader(arg)
        /\ (NoHeader(arg) /\ arg.changes = <<>>) => ret.valid_period = None
        /\ TafText(arg) \in {"", " "} =>
              /\ \A k \in {"station", "issue_time", "valid_period", "wind", "visibility",
                           "temperature"} : ret[k] = None
              /\ ret.weather = <<>> /\ ret.clouds = <<>> /\ ret.changes = <<>>
        /\ arg.head = "101100Z 1012/1112" =>
              /\ Val(ret.issue_time).day = 10
              /\ Val(ret.issue_time).hour = 11
              /\ Val(ret.issue_time).minute = 0
              /\ Val(ret.valid_period).from_day = 10 /\ Val(ret.valid_period).from_hour = 12
              /\ Val(ret.valid_period).to_day = 11 /\ Val(ret.valid_period).to_hour = 12
              /\ LET m == ParseMainForecast(WithStation(arg))
                 IN  /\ ret.wind = m.wind
                     /\ ret.visibility = m.visibility
                     /\ ret.weather = m.weather
                     /\ ret.clouds = m.clouds
                     /\ ret.temperature = m.temperature
              /\ ret.changes = ParseChanges(WithStation(arg))
              /\ arg.wind # "" => ret.wind # None
              /\ arg.clouds # <<>> => Len(ret.clouds) = Len(arg.clouds)

\* a message without a station, with a wind, clouds and a change
C14_Witness ==
    /\ DecodedTaf
    /\ arg.head = "101100Z 1012/1112"
    /\ arg.wind = "32015G25KT"
    /\ arg.clouds # <<>>
    /\ arg.changes # <<>>
    /\ ret.station = None
    /\ ret.issue_time # None
    /\ ret.valid_period # None
    /\ ret.wind # None
    /\ Len(ret.clouds) = 2
    /\ ret.changes # <<>>


(***************************************************************************)
(* C15.  An empty or blank text is reported to the caller as a failure, by *)
(* an exception or by an error marker in the result, and not answered with *)
(* an ordinary record whose fields are all absent.                         *)
(***************************************************************************)
BlankText(a) == Strip(TafText(a)) = ""

\* decode returns self.decoded on every path (line 174), so a failure can
\* only show as the 'error' key of line 172
ReportsFailure(r) == "error" \in DOMAIN r

\* C15: a blank text has a failure reported, and only a blank text has
C15_BlankTextFails == DecodedTaf => (ReportsFailure(ret) <=> BlankText(arg))

\* no other text has a failure reported
C15_OnlyBlankTextFails == (DecodedTaf /\ ~BlankText(arg)) => ~ReportsFailure(ret)

\* a text of one blank: an ordinary record, every field absent, the text
\* of the empty forecast generated
C15_Witness ==
    /\ DecodedTaf
    /\ TafText(arg) = " "
    /\ ~ReportsFailure(ret)
    /\ ret.raw = ""
    /\ ret.station = None /\ ret.wind = None /\ ret.changes = <<>>
    /\ ret.human_readable = Join(<<"", Rule, "MAIN FORECAST", Rule, "">>, NL)


(***************************************************************************)
(* C16.  One decoder used for call after call, as decode_taf_file does:    *)
(* what a call returns is what a decoder of its own returns for the same   *)
(* text, whatever was decoded before, and what an earlier call returned is *)
(* not changed by a later call.                                            *)
(***************************************************************************)
\* C16: the dict a call returned, at the return and at every later time,
\* is the one a decoder of its own gives for the text of that call
C16_ReuseIsStateless ==
    /\ calls["t1"].pc = "returned" =>
          heap[calls["t1"].result] = DecodeAlone(calls["t1"].taf_text)
    /\ \A k \in 1..Len(decoded_list) :
          /\ heap[decoded_list[k].full_data] = DecodeAlone(decoded_list[k].raw)
          /\ decoded_list[k].decoded = DecodeAlone(decoded_list[k].raw).human_readable
    /\ \A j, k \in 1..Len(decoded_list) :
          decoded_list[j].raw = decoded_list[k].raw =>
              heap[decoded_list[j].full_data] = heap[decoded_list[k].full_data]

\* three calls, the first and the third with the same text and another
\* between them: three dicts, the first still that of its text
C16_Witness ==
    /\ Len(decoded_list) = 3
    /\ decoded_list[1].raw = decoded_list[3].raw
    /\ decoded_list[2].raw # decoded_list[1].raw
    /\ decoded_list[1].full_data # decoded_list[3].full_data
    /\ heap[decoded_list[1].full_data].station = Some("UAAA")
    /\ heap[decoded_list[2].full_data].station = Some("UACC")

(***************************************************************************)
(* C17.  Two calls of decode at the same time on one decoder, with no      *)
(* lock: under every interleaving each call returns a record of its own,   *)
(* made from its own text only, the one it returns when it runs alone.     *)
(***************************************************************************)
\* C17: what a call returned is what it returns alone
C17_EachCallItsOwnRecord ==
    \A t \in Threads :
        calls[t].pc = "returned" =>
            heap[calls[t].result] = DecodeAlone(calls[t].taf_text)

\* a call that runs from line 143 to line 174 with no statement of another
\* call between returns its own record: here the other call has not begun
C17_AloneIsOwnRecord ==
    \A t, u \in Threads :
        (t # u /\ calls[t].pc = "returned" /\ calls[u].pc = "idle" /\ Len(heap) = 1) =>
            heap[calls[t].result] = DecodeAlone(calls[t].taf_text)

\* both calls have returned, with different texts, and returned the same
\* dict: its raw is that of t2's text and its station that of t1's
C17_Witness ==
    /\ calls["t1"].pc = "returned" /\ calls["t2"].pc = "returned"
    /\ calls["t1"].taf_text # calls["t2"].taf_text
    /\ calls["t1"].result = calls["t2"].result
    /\ heap[calls["t1"].result].raw = Strip(calls["t2"].taf_text)
    /\ heap[calls["t1"].result].station = Some("UAAA")
    /\ DecodeAlone(calls["t2"].taf_text).station = Some("UACC")


(***************************************************************************)
(* C18.  The description: every whole word that is an abbreviation of the  *)
(* table, in capitals or not, is replaced by its translation; every other  *)
(* word is kept; an abbreviation inside a longer token of letters and      *)
(* digits is not replaced.                                                 *)
(***************************************************************************)
DecodedDescription == pc = "done" /\ op = "decode_description"

\* the words of DescriptionWords, read by hand
WordAsClaimed(w) ==
    IF w = "RWY" THEN "_runway"
    ELSE IF w = "Twy" THEN "_taxiway"
    ELSE IF w = "CLSD" THEN "_closed"
    ELSE IF w = "MAINT" THEN "_maintenance"
    ELSE IF w = "U/S" THEN "_not _working"
    ELSE IF w = "FL" THEN "_level"
    ELSE IF w = "WORK IN PROGRESS" THEN "_construction _work"
    ELSE IF w = "MON-FRI" THEN "_monday-_friday"
    ELSE w

RECURSIVE WordsAsClaimed(_)
WordsAsClaimed(words) ==
    IF Len(words) = 0 THEN <<>>
    ELSE <<WordAsClaimed(words[1])>> \o WordsAsClaimed(Tail(words))

\* C18: the decoded description is the words of the description, each an
\* abbreviation replaced or another word kept
C18_WholeWordsOnly ==
    (DecodedDescription /\ arg.words # None /\ Val(arg.words) # <<>>) =>
        /\ ret.decoded.description_decoded = Some(Join(WordsAsClaimed(Val(arg.words)), " "))
        /\ Val(arg.words) = DescriptionSample =>
              ret.decoded.description_decoded = Some("_runway _closed DUE _maintenance")

\* TWYS and FL100 are kept whole, next to a TWY and an FL that are replaced
C18_Witness ==
    /\ DecodedDescription
    /\ arg.words \in {Some(<<"TWYS", "Twy">>), Some(<<"FL100", "FL">>)}
    /\ ret.decoded.description_decoded \in {Some("TWYS _taxiway"), Some("FL100 _level")}

C18_WitnessSample ==
    /\ DecodedDescription
    /\ arg.words = Some(DescriptionSample)
    /\ ret.decoded.description_decoded = Some("_runway _closed DUE _maintenance")

Surrounded(text) == text # "" /\ (Ch(text, 1) \in Spaces \/ Ch(text, Len(text)) \in Spaces)

\* C20: raw is the input text itself, for a TAF and for a NOTAM
C20_RawIsInputText ==
    /\ DecodedTaf => ret.raw = TafText(arg)
    /\ (ParsedNotam /\ ret # None) => Val(ret).raw = NotamText(arg)

\* what lines 143 and 394 keep: the text without the whitespace around it,
\* which is the text itself when there is none around it
C20_RawIsStrippedText ==
    /\ DecodedTaf => /\ ret.raw = Strip(TafText(arg))
                     /\ ~Surrounded(TafText(arg)) => ret.raw = TafText(arg)
    /\ (ParsedNotam /\ ret # None) =>
            /\ Val(ret).raw = Strip(NotamText(arg))
            /\ ~Surrounded(NotamText(arg)) => Val(ret).raw = NotamText(arg)

\* a TAF that starts with blanks: raw has lost them
C20_Witness ==
    /\ DecodedTaf
    /\ TafText(arg) = "  VRB03KT 9999"
    /\ ret.raw = "VRB03KT 9999"

\* a NOTAM block that ends with a line break: raw has lost it
C20_WitnessNotam ==
    /\ ParsedNotam /\ ret # None
    /\ Ch(NotamText(arg), Len(NotamText(arg))) = NL
    /\ Val(ret).raw \o NL = NotamText(arg)

\* a TAF without whitespace around it: raw is the text
C20_WitnessExact ==
    /\ DecodedTaf
    /\ TafText(arg) = "TAF UAAA 101100Z 1012/1112 VRB03KT 9999"
    /\ ret.raw = TafText(arg)


(***************************************************************************)
(* C21.  A bare 4-digit token is the visibility in meters wherever it      *)
(* stands in a segment without CAVOK and 9999: also as the last token of   *)
(* the baseline and as the first or the last token of the body of a        *)
(* change group.                                                           *)
(***************************************************************************)
FourDigit(token) == Len(token) = 4 /\ DigitsAt(token, 1, 4)

\* the tokens k of a list that are bare 4-digit tokens, k within lo..hi
BareTokens(tokens, lo, hi) ==
    {tokens[k] : k \in {j \in lo..hi : j \in 1..Len(tokens) /\ FourDigit(tokens[j])}}

NoTenKm(segment) == ~Contains(segment, "CAVOK") /\ ~Contains(segment, "9999")

\* the baseline of the message of a: its text without the change groups
BaselineText(a) == TafText([a EXCEPT !.changes = <<>>])

\* v is the visibility of one of the tokens `bare`, or none when there is
\* none
VisibilityOf(bare, v) ==
    IF bare = {} THEN v = None
    ELSE v # None /\ Val(v).meters \in {StrToInt(t) : t \in bare}

SegmentAsClaimed(segment, v) ==
    NoTenKm(segment) =>
        With(SplitWs(segment), LAMBDA tokens :
            VisibilityOf(BareTokens(tokens, 1, Len(tokens)), v))

\* only a token with another token before it and after it counts
SegmentAsCoded(segment, v) ==
    NoTenKm(segment) =>
        With(SplitWs(segment), LAMBDA tokens :
            VisibilityOf(BareTokens(tokens, 2, Len(tokens) - 1), v))

\* the messages whose change groups all have an entry
EveryChangeDecoded == DecodedTaf /\ Len(ret.changes) = Len(arg.changes)

\* the messages that have a baseline before their change groups
BaselineDecoded == DecodedTaf /\ Strip(BaselineText(arg)) # ""

\* C21: the baseline and every change group have the visibility of a bare
\* 4-digit token of theirs, wherever the token stands
C21_BareTokenAnywhere ==
    /\ BaselineDecoded => SegmentAsClaimed(BaselineText(arg), ret.visibility)
    /\ EveryChangeDecoded =>
          \A k \in 1..Len(arg.changes) :
              SegmentAsClaimed(arg.changes[k].body, ret.changes[k].visibility)

\* what \s(\d{4})\s gives: the first and the last token of a segment are
\* never the visibility
C21_TokenBetweenTokens ==
    /\ BaselineDecoded => SegmentAsCoded(BaselineText(arg), ret.visibility)
    /\ EveryChangeDecoded =>
          \A k \in 1..Len(arg.changes) :
              SegmentAsCoded(arg.changes[k].body, ret.changes[k].visibility)

\* 4000 is the last token of the baseline, before the first indicator:
\* the baseline has no visibility
C21_Witness ==
    /\ DecodedTaf
    /\ TafText(arg) = "TAF UAAA 101100Z 1012/1112 32015G25KT 4000 TEMPO 1014/1018 4000 TSRA BKN020CB"
    /\ ret.visibility = None
    /\ Val(ret.changes[1].visibility).meters = 4000

\* 3000 is the first token of the body of a change group, 4000 the last
\* token of another: neither group has a visibility
C21_WitnessChange ==
    /\ EveryChangeDecoded
    /\ Len(arg.changes) = 1
    /\ arg.changes[1].body \in {"3000 BR", "1020/1024 VRB05G15MPS 4000"}
    /\ ret.changes[1].visibility = None


(***************************************************************************)
(* C22.  The description is the text after E) up to the F) or G) field or  *)
(* the end of the text, trimmed: it spans lines, a letter and ')' inside   *)
(* the description (as in 'REF)') do not end it, and it holds nothing of   *)
(* the F) or G) field.                                                     *)
(***************************************************************************)
\* the body of the E) field of a block
HasEField(a) == a.e # "" /\ a.id1 = StdId /\ a.id2 = NoGroup

\* C22: the description is the whole body of the E) field
C22_DescriptionToNextField ==
    (ParsedNotam /\ HasEField(arg)) => Val(ret).description_raw = Some(EBody(arg))

\* a body without F) and G) in it is the description; any other is cut
\* before its first F) or G)
C22_CutAtFirstMarker ==
    (ParsedNotam /\ HasEField(arg)) =>
        /\ Val(ret).description_raw # None
        /\ ~MarkerInBody(arg) => Val(ret).description_raw = Some(EBody(arg))
        /\ MarkerInBody(arg) =>
              With(Val(Val(ret).description_raw), LAMBDA d :
                  /\ Len(d) < Len(EBody(arg))
                  /\ d = Strip(SubSeq(EBody(arg), 1, Len(d)))
                  /\ ~Contains(d, "F)") /\ ~Contains(d, "G)")
                  /\ \E m \in {"F)", "G)"} :
                        LitAt(EBody(arg), SkipWs(EBody(arg), Len(d) + 1), m))

\* the body 'TWY B CLSD (AIP REF) DUE WIP' is cut inside REF), and the rest
\* of it is taken for the F) field
C22_Witness ==
    /\ ParsedNotam
    /\ arg.e = "E) TWY B CLSD (AIP REF) DUE WIP"
    /\ arg.f = StdF /\ arg.g = StdG
    /\ Val(ret).description_raw = Some("TWY B CLSD (AIP RE")
    /\ Val(ret).lower_limit = Some("DUE WIP")

\* a body of two lines before an F) field is the description
C22_WitnessLines ==
    /\ ParsedNotam /\ HasEField(arg)
    /\ arg.e = StdE /\ arg.f = StdF
    /\ Val(ret).description_raw = Some("RWY 05/23 CLSD\nDUE MAINT")


(***************************************************************************)
(* C23.  The end of the validity of an extracted record is a decoded       *)
(* timestamp, EST or absent; is_permanent is true exactly when the C)      *)
(* field is PERM, and then valid_to is absent.  The text of a permanent    *)
(* NOTAM shows the permanent marker and no end of validity.                *)
(***************************************************************************)
DecodedParsedNotam == pc = "done" /\ op = "decode_parsed_notam"

\* the value of the C) field of a block, "" when it has none
CValue(a) == IF a.c = "" THEN "" ELSE Strip(SubSeq(a.c, 3, Len(a.c)))

ValidityEndAsClaimed(a, r) ==
    /\ r.valid_to = None \/ r.valid_to = Some("EST") \/ IsIsoStamp(Val(r.valid_to))
    /\ r.is_permanent <=> CValue(a) = "PERM"
    /\ r.is_permanent => r.valid_to = None

\* C23: the record of _parse_raw_notam, and the text decode renders of it
C23_ValidityEnd ==
    /\ (ParsedNotam /\ ret # None) => ValidityEndAsClaimed(arg, Val(ret))
    /\ DecodedParsedNotam =>
          /\ ValidityEndAsClaimed(arg, ret.notam_data)
          /\ ret.decoded.is_permanent = ret.notam_data.is_permanent
          /\ ret.decoded.valid_to = ret.notam_data.valid_to
          /\ ret.decoded.is_permanent =>
                /\ Contains(ret.decoded.human_readable, NL \o PermanentLine \o NL)
                /\ ~Contains(ret.decoded.human_readable, " until ")
          /\ ~ret.decoded.is_permanent =>
                /\ ~Contains(ret.decoded.human_readable, PermanentLine)
                /\ Contains(ret.decoded.human_readable,
                            " until " \o FormatDatetime(ret.decoded.valid_to) \o NL)

\* a block with C) PERM: permanent, no valid_to, the marker in the text
C23_Witness ==
    /\ DecodedParsedNotam
    /\ arg.c = "C) PERM"
    /\ ret.notam_data.is_permanent /\ ret.notam_data.valid_to = None
    /\ Contains(ret.decoded.human_readable, NL \o PermanentLine \o NL)

\* a block with a timestamp in C): its end of validity is in the text
C23_WitnessStamp ==
    /\ DecodedParsedNotam
    /\ arg.b = StdB /\ arg.c = StdC
    /\ ~ret.notam_data.is_permanent
    /\ ret.notam_data.valid_to = Some("2024-03-05T18:00:00Z")
    /\ Contains(ret.decoded.human_readable,
                "valid: from 01.03.2024 12:30 UTC until 05.03.2024 18:00 UTC")

\* EST in C), and a C) field that is no timestamp
C23_WitnessEst ==
    /\ DecodedParsedNotam
    /\ \/ arg.c = "C) EST" /\ ret.notam_data.valid_to = Some("EST")
             /\ Contains(ret.decoded.human_readable, " until to be confirmed")
       \/ arg.c = "C) 2413011230" /\ ret.notam_data.valid_to = None
             /\ Contains(ret.decoded.human_readable, " until N/A")


(***************************************************************************)
(* C24.  An issue_time has its day in 1..31, its hour in 0..23 and its     *)
(* minute in 0..59; a valid_period has its days in 1..31 and its hours in  *)
(* 0..24; a DDHHmmZ or DDHH/DDHH token outside these ranges gives no       *)
(* field.                                                                  *)
(***************************************************************************)
ParsedHeader == pc = "done" /\ op = "_parse_header"

IssueInRange(i, days, hours, minutes) ==
    i.day \in days /\ i.hour \in hours /\ i.minute \in minutes

ValidInRange(v, days, hours) ==
    /\ v.from_day \in days /\ v.to_day \in days
    /\ v.from_hour \in hours /\ v.to_hour \in hours

\* the fields of the header tokens of a, read as numbers
IssueOf(a) ==
    [day |-> Int2(a.issue, 1), hour |-> Int2(a.issue, 3), minute |-> Int2(a.issue, 5)]

ValidOf(a) ==
    [from_day |-> Int2(a.valid, 1), from_hour |-> Int2(a.valid, 3),
     to_day |-> Int2(a.valid, 6), to_hour |-> Int2(a.valid, 8)]

\* a token of the ranges gives the field with its values, any other none
HeaderWithin(a, r, days, issue_hours, valid_hours) ==
    /\ IF a.issue # "" /\ IssueInRange(IssueOf(a), days, issue_hours, 0..59)
       THEN /\ r.issue_time # None
            /\ Val(r.issue_time).day = IssueOf(a).day
            /\ Val(r.issue_time).hour = IssueOf(a).hour
            /\ Val(r.issue_time).minute = IssueOf(a).minute
       ELSE r.issue_time = None
    /\ IF a.valid # "" /\ ValidInRange(ValidOf(a), days, valid_hours)
       THEN /\ r.valid_period # None
            /\ Val(r.valid_period).from_day = ValidOf(a).from_day
            /\ Val(r.valid_period).from_hour = ValidOf(a).from_hour
            /\ Val(r.valid_period).to_day = ValidOf(a).to_day
            /\ Val(r.valid_period).to_hour = ValidOf(a).to_hour
       ELSE r.valid_period = None

\* C24: the calendar ranges decide which tokens give a field
C24_CalendarRanges == ParsedHeader => HeaderWithin(arg, ret, 1..31, 0..23, 0..24)

\* the ranges of the patterns [0-3]\d, [0-2]\d and [0-5]\d
C24_PatternRanges == ParsedHeader => HeaderWithin(arg, ret, 0..39, 0..29, 0..29)

\* day 32 and hour 25 are an issue_time
C24_Witness ==
    /\ ParsedHeader
    /\ arg.issue = "322500Z"
    /\ ret.issue_time # None
    /\ Val(ret.issue_time).day = 32 /\ Val(ret.issue_time).hour = 25

\* day 0 and hour 29 are a valid_period; day 40 is none
C24_WitnessPeriod ==
    /\ ParsedHeader
    /\ \/ arg.valid = "0029/1112" /\ ret.valid_period # None
             /\ Val(ret.valid_period).from_day = 0 /\ Val(ret.valid_period).from_hour = 29
       \/ arg.valid = "4011/1112" /\ ret.valid_period = None


(***************************************************************************)
(* C25.  Every obstacle code is a Warning: QOBXX, QOBCE, QOBCL and any     *)
(* other code of the QOB family, as are the codes of the families QMRL,    *)
(* QMAL, QMGL and QRRC that are not Critical.                              *)
(***************************************************************************)
ObstacleCode(code) == StartsWith(code, "QOB")

OtherWarningFamily(code) == SubSeq(code, 1, 4) \in {"QMRL", "QMAL", "QMGL", "QRRC"}

DecodedCode == DecodedNotam /\ arg.q_code # None /\ Val(arg.q_code) # ""

\* C25: the codes of the QOB family and of the four other families are
\* Warning unless Critical
C25_ObstacleCodesWarn ==
    DecodedCode =>
        LET code == Val(arg.q_code)
        IN  ((ObstacleCode(code) \/ OtherWarningFamily(code))
                /\ code \notin critical_patterns)
                => ret.severity = Some("warning")

\* the four other families are as claimed; of the QOB family only the
\* codes that start with QOBX are Warning, the others are Info
C25_FirstFourLetters ==
    DecodedCode =>
        LET code == Val(arg.q_code)
        IN  /\ (OtherWarningFamily(code) /\ code \notin critical_patterns)
                => ret.severity = Some("warning")
            /\ ObstacleCode(code) =>
                ret.severity = (IF StartsWith(code, "QOBX") THEN Some("warning")
                                ELSE Some("info"))

\* QOBCE, 'obstacle erected' in Q_CODES, is Info
C25_Witness ==
    /\ DecodedNotam
    /\ arg.q_code = Some("QOBCE")
    /\ ret.q_decoded = Some(Q_CODES["QOBCE"])
    /\ ret.severity = Some("info")
    /\ ret.severity_emoji = Some("blue circle")

\* QOBXX and a code of the family QMRL that Q_CODES does not list are
\* Warning
C25_WitnessWarning ==
    /\ DecodedNotam
    /\ arg.q_code \in {Some("QOBXX"), Some("QMRLZ")}
    /\ ret.severity = Some("warning")


(***************************************************************************)
(* C26.  The baseline and the change groups partition the message: the     *)
(* baseline ends before the first change indicator, the first group starts *)
(* where it ends, and every token is of the baseline or of exactly one     *)
(* group; no token is lost because the two splits disagree on what an      *)
(* indicator is.                                                           *)
(***************************************************************************)
\* the indicator and the body of every group _parse_changes finds from p
RECURSIVE GroupsFrom(_, _)
GroupsFrom(s, p) ==
    With(ChangeMatch(s, p), LAMBDA m :
        IF m = None THEN <<>>
        ELSE <<JoinSp(Val(m).g[1], Val(m).g[2])>> \o GroupsFrom(s, Val(m).e))

\* the baseline of _parse_main_forecast and the groups of _parse_changes,
\* one after the other
Reassembled(t) == JoinSp(MainPart(t), Join(GroupsFrom(t, 1), " "))

\* the text decode hands to both
MessageOf(a) == Normalize(Strip(TafText(a)))

\* C26: the baseline and the groups together are the message, token by
\* token, and the groups are those of the message
C26_Partition ==
    DecodedTaf =>
        /\ Reassembled(MessageOf(arg)) = MessageOf(arg)
        /\ Len(ret.changes) = Len(arg.changes)
        /\ MainPart(MessageOf(arg)) = Normalize(Strip(BaselineText(arg)))

\* the two splits agree on the indicators with all their digits: such a
\* message is its baseline and its groups, whatever it starts with
C26_WholeIndicatorsPartition ==
    (DecodedTaf /\ WholeIndicators(arg)) =>
        /\ Reassembled(MessageOf(arg)) = MessageOf(arg)
        /\ Len(ret.changes) = Len(GroupsFrom(MessageOf(arg), 1))
        /\ ~StartsWithIndicator(arg) =>
              /\ Len(ret.changes) = Len(arg.changes)
              /\ MainPart(MessageOf(arg)) = Normalize(Strip(BaselineText(arg)))

\* FM1200 ends the baseline and starts no group: its tokens and its body
\* are in neither, up to the BECMG group
C26_Witness ==
    /\ DecodedTaf
    /\ MessageOf(arg) = "TAF UAAA 101100Z 1012/1112 32015G25KT 9999 "
                           \o "FM1200 18005MPS 4000 BR BECMG 1102/1104 9999 NSC"
    /\ MainPart(MessageOf(arg)) = "TAF UAAA 101100Z 1012/1112 32015G25KT 9999"
    /\ Len(ret.changes) = 1
    /\ ret.changes[1].indicator = "BECMG"
    /\ Val(ret.wind).direction = Some(320)
    /\ ret.weather = <<>>

\* a message of whole indicators: three groups after the baseline
C26_WitnessWhole ==
    /\ DecodedTaf /\ WholeIndicators(arg)
    /\ arg.head = "TAF AMD UAAA 101100Z 1012/1112"
    /\ Len(ret.changes) = 3
    /\ Reassembled(MessageOf(arg)) = MessageOf(arg)


(***************************************************************************)
(* C27.  The temperature extreme is a maximum for TX and a minimum for TN, *)
(* and its value is negative exactly when the token itself has the M       *)
(* before its two digits, whatever other text of the baseline holds the    *)
(* letter M.                                                               *)
(***************************************************************************)
ParsedTemperature == pc = "done" /\ op = "_parse_temperature"

HasTempToken(a) == a.extreme # ""

\* the extreme of the token of a, its value negative when `negative`
ExtremeOf(a, negative, r) ==
    /\ r # None
    /\ Val(r).type = (IF a.extreme = "X" THEN "maximum" ELSE "minimum")
    /\ Val(r).value = (IF negative THEN 0 - StrToInt(a.dd) ELSE StrToInt(a.dd))

\* C27: the sign is that of the token
C27_SignOfToken ==
    ParsedTemperature =>
        IF HasTempToken(arg) THEN ExtremeOf(arg, arg.minus, ret) ELSE ret = None

\* the kind is that of the token; the sign is negative when the letter M
\* is anywhere in the segment
C27_SignOfSegment ==
    ParsedTemperature =>
        IF HasTempToken(arg)
        THEN ExtremeOf(arg, Contains(TempText(arg), "M"), ret)
        ELSE ret = None

\* TX15 after a wind in MPS: a maximum of -15
C27_Witness ==
    /\ ParsedTemperature
    /\ TempText(arg) = "TAF UAAA 101100Z 1012/1112 18005MPS 9999 TX15/1012Z"
    /\ ret # None
    /\ Val(ret).type = "maximum"
    /\ Val(ret).value = 0 - 15
    /\ Val(ret).text = "maximum temperature -15 C"

\* TNM03 and TX15 in a segment without another M: -3 and +15
C27_WitnessOwnSign ==
    /\ ParsedTemperature
    /\ arg.pre = "TAF UAAA 101100Z 1012/1112 18005KT 9999" /\ arg.post = ""
    /\ \/ arg.extreme = "N" /\ arg.minus /\ arg.dd = "03" /\ Val(ret).value = 0 - 3
       \/ arg.extreme = "X" /\ ~arg.minus /\ arg.dd = "15" /\ Val(ret).value = 15


(***************************************************************************)
(* C28.  The weather of the baseline is one entry for each weather token   *)
(* of the baseline, in the order of the text, and nothing else: the word   *)
(* TAF, AMD or COR, the station code whatever its letters, and the cloud   *)
(* and CAVOK tokens give no entry.                                         *)
(***************************************************************************)
\* the codes of a weather list are the tokens of a list, one by one
CodesAre(weather, tokens) ==
    /\ Len(weather) = Len(tokens)
    /\ \A k \in 1..Len(tokens) : weather[k].code = tokens[k]

\* the words of the header of a that _decode_weather_code finds a
\* phenomenon in
RECURSIVE Phenomenal(_)
Phenomenal(tokens) ==
    IF Len(tokens) = 0 THEN <<>>
    ELSE (IF CodeLen(tokens[1], 1) = Len(tokens[1]) /\ DecodeWeatherCode(tokens[1]) # None
          THEN <<tokens[1]>> ELSE <<>>) \o Phenomenal(Tail(tokens))

\* C28: the baseline weather is that of the weather tokens
C28_WeatherTokensOnly ==
    BaselineDecoded => CodesAre(ret.weather, SplitWs(arg.wx))

\* the baseline weather is that of the header words that hold the two
\* letters of a phenomenon, then that of the weather tokens
C28_HeaderWordsToo ==
    BaselineDecoded =>
        CodesAre(ret.weather, Phenomenal(SplitWs(arg.head)) \o SplitWs(arg.wx))

\* the station UTSS, no weather token: a thunderstorm in the baseline
C28_Witness ==
    /\ DecodedTaf
    /\ TafText(arg) = "TAF UTSS 101100Z 1012/1112 32015G25KT CAVOK FEW040 BKN100"
    /\ ret.station = Some("UTSS")
    /\ Len(ret.weather) = 1
    /\ ret.weather[1].code = "UTSS"
    /\ ret.weather[1].text = "thunder thunderstorm"

\* the station UTTT: the two weather tokens and nothing else, in order
C28_WitnessTokens ==
    /\ DecodedTaf
    /\ arg.head = "TAF AMD UTTT 101100Z 1012/1112" /\ arg.wx = "-SHRA BR"
    /\ arg.clouds # <<>>
    /\ Len(ret.weather) = 2
    /\ ret.weather[1].code = "-SHRA" /\ ret.weather[2].code = "BR"


(***************************************************************************)
(* C29.  fetch_all_notams tries notam.ans.kz and then ans.kz/ru/ais/notam, *)
(* each once at most; the first source that gives a list with NOTAMs is    *)
(* used and no source is tried after it, a source that raises or gives an  *)
(* empty list being followed by the next; and on return total_notams is    *)
(* the length of notams, source being None exactly when notams is empty.   *)
(***************************************************************************)
\* the call of a parse function gave a list with NOTAMs
Gave(q) == q.gave # Raised /\ q.gave # <<>>

\* the sources tried are the first ones of the list, in its order, each once
InOrderOnce ==
    /\ Len(queried) <= Len(Sources)
    /\ \A k \in 1..Len(queried) : queried[k].source_name = Sources[k]

\* no source was tried after one that gave NOTAMs
StopsAtFirst == \A k \in 1..Len(queried) : Gave(queried[k]) => k = Len(queried)

\* results is of the last source tried if it gave NOTAMs, and is as it was
\* made otherwise
UsesWhatItGave ==
    IF queried # <<>> /\ Gave(queried[Len(queried)])
    THEN /\ notam_results.source = Some(queried[Len(queried)].source_name)
         /\ notam_results.notams = queried[Len(queried)].gave
    ELSE notam_results = NewNotamResults

\* when the call returns without NOTAMs every source has been tried
TriedThemAll ==
    (fetch_pc = "returned" /\ notam_results.notams = <<>>) => Len(queried) = Len(Sources)

\* C29: the order, the single try, the fall through and the result
C29_SourceFallback ==
    /\ InOrderOnce
    /\ StopsAtFirst
    /\ UsesWhatItGave
    /\ TriedThemAll
    /\ notam_results.total_notams = Len(notam_results.notams)
    /\ notam_results.source = None <=> notam_results.notams = <<>>

\* the first source raised, the second gave two NOTAMs: the second is used
C29_Witness ==
    /\ fetch_pc = "returned"
    /\ Len(queried) = 2
    /\ queried[1] = [source_name |-> "notam.ans.kz", gave |-> Raised]
    /\ queried[2] = [source_name |-> "ans.kz/ru/ais/notam",
                     gave |-> <<"A0123/24", "C0789/24">>]
    /\ notam_results = [source |-> Some("ans.kz/ru/ais/notam"), total_notams |-> 2,
                        notams |-> <<"A0123/24", "C0789/24">>]

\* the first source gave a NOTAM: the second is not tried
C29_WitnessFirst ==
    /\ fetch_pc = "returned"
    /\ Len(queried) = 1 /\ Gave(queried[1])
    /\ notam_results.source = Some("notam.ans.kz")
    /\ notam_results.total_notams = 1

\* both sources gave an empty list: no source, no NOTAM
C29_WitnessNone ==
    /\ fetch_pc = "returned"
    /\ Len(queried) = 2 /\ queried[1].gave = <<>> /\ queried[2].gave = <<>>
    /\ notam_results = NewNotamResults

(***************************************************************************)
(* C30.  collect_all_taf returns a result for every list of countries, an  *)
(* empty one and one of unknown codes only included, unknown codes being   *)
(* passed over; after every airport and on return total_airports is        *)
(* successful + failed, taf_data has successful entries, and the stats of  *)
(* every country done have total = successful + failed.                    *)
(***************************************************************************)
\* the counts of results agree
TotalsAgree ==
    /\ taf_results.total_airports = taf_results.successful + taf_results.failed
    /\ Len(taf_results.taf_data) = taf_results.successful

\* the stats of the countries put in results agree
CountriesAgree ==
    \A k \in 1..Len(taf_results.countries) :
        LET stats == taf_results.countries[k].stats
        IN  /\ stats.total = stats.successful + stats.failed
            /\ Len(stats.airports) = stats.successful

\* an airport is between the count and the outcome of collect
MidAirport == collect_pc = "364"

\* the counts, whenever no airport is under way
CountsAgree == ~MidAirport => (TotalsAgree /\ CountriesAgree)

\* C30: the call does not raise, and the counts agree
C30_ResultForEveryList ==
    /\ collect_pc # "raised"
    /\ CountsAgree

\* the counts agree, the call raises only when no airport was counted, and
\* then results is as it was made
C30_RaisesWithoutAirports ==
    /\ CountsAgree
    /\ collect_pc = "raised" =>
          /\ \A k \in 1..Len(countries) : countries[k] \notin DOMAIN TafAirports
          /\ taf_results = NewTafResults
    /\ collect_pc \in {"413", "returned"} =>
          \E k \in 1..Len(countries) : countries[k] \in DOMAIN TafAirports

\* a list of one unknown code: ZeroDivisionError
C30_Witness ==
    /\ collect_pc = "raised"
    /\ countries = <<"XX">>
    /\ taf_results.total_airports = 0

\* the empty list: ZeroDivisionError
C30_WitnessEmpty ==
    /\ collect_pc = "raised"
    /\ countries = <<>>

\* an unknown code and a country, one airport of three collected: returned
C30_WitnessReturned ==
    /\ collect_pc = "returned"
    /\ countries = <<"XX", "KG">>
    /\ taf_results.total_airports = 3
    /\ taf_results.successful = 1 /\ taf_results.failed = 2
    /\ Len(taf_results.countries) = 1
    /\ taf_results.countries[1].stats.total = 3

====
